---- MODULE Spec2Model ----
(***************************************************************************)
(* A model of the configuration-management subsystem of opencode-mcp:      *)
(* writeConfig (locate, merge, validate, backup rotation, persist),        *)
(* deepMerge, validateConfigData, cleanupOldBackups, loadConfigSchema and  *)
(* the schema path walk of generateConfigSnippet.                          *)
(***************************************************************************)
EXTENDS Integers, Sequences, FiniteSets, TLC

VARIABLES
    files,              \* config path -> content on disk
    globalDir,          \* whether ~/.config/opencode exists
    backups,            \* scope -> set of files in <configDir>/.opencode-backup
    clock,              \* last millisecond value read from the system clock
    configSchemaCache,  \* the module-level schema cache of the data loaders
    schemaFile,         \* data/config-schema.json
    calls,              \* one record per writeConfig invocation slot
    nCalls,             \* number of writeConfig invocations begun
    taken,              \* scope -> the backups written by successful overwriting writes
    snip,               \* the generateConfigSnippet invocation
    tool,               \* the latest read-config, validate-config, get-schema or
                        \* update-config-schema invocation
    loadedAt,           \* the clock when the schema cache was last assigned
    modelsDevCache,     \* the module-level catalog cache of the data loaders
    modelsDevCacheTime, \* the clock when the catalog cache was last assigned
    modelsDevFile,      \* data/models-dev-api.json
    query,              \* the latest invocation of a models.dev tool
    service             \* the request layer: the request being served, the last
                        \* response, whether the process runs

catalogVars == <<modelsDevCache, modelsDevCacheTime, modelsDevFile, query>>

vars == <<files, globalDir, backups, clock, configSchemaCache, schemaFile,
          calls, nCalls, taken, snip, tool, loadedAt, catalogVars, service>>

-----------------------------------------------------------------------------
(* JSON values as tagged records.                                          *)

Null == [t |-> "null"]
Undefined == [t |-> "undefined"]
Threw == [t |-> "TypeError"]
Num(n) == [t |-> "num", n |-> n]
Str(s) == [t |-> "str", s |-> s]
Bool(b) == [t |-> "bool", b |-> b]
Arr(e) == [t |-> "arr", e |-> e]
Obj(f) == [t |-> "obj", f |-> f]
EmptyObj == Obj(<<>>)

\* The property name of array index i (0-based), as for..in and Object.entries give it.
IdxKey(i) == <<"0", "1", "2", "3", "4", "5">>[i + 1]

\* The characters of the string values the model uses.
StrChars(s) ==
    CASE s = "local" -> <<"l", "o", "c", "a", "l">>
      [] s = "remote" -> <<"r", "e", "m", "o", "t", "e">>
      [] s = "" -> <<>>
      [] OTHER -> <<s>>

\* The own enumerable properties of a value, as a function from names to values:
\* what { ...v }, for..in, Object.keys and Object.entries see.
OwnProps(v) ==
    CASE v.t = "obj" -> v.f
      [] v.t = "arr" -> [k \in {IdxKey(i - 1) : i \in 1..Len(v.e)} |->
                            v.e[CHOOSE i \in 1..Len(v.e) : IdxKey(i - 1) = k]]
      [] v.t = "str" -> LET c == StrChars(v.s) IN
                        [k \in {IdxKey(i - 1) : i \in 1..Len(c)} |->
                            Str(c[CHOOSE i \in 1..Len(c) : IdxKey(i - 1) = k])]
      [] OTHER -> <<>>

\* v[k]: undefined when v has no such property.
Get(v, k) == IF k \in DOMAIN OwnProps(v) THEN OwnProps(v)[k] ELSE Undefined

\* x instanceof Object
InstanceOfObject(v) == v.t \in {"obj", "arr"}

\* typeof x
TypeOf(v) ==
    CASE v.t \in {"obj", "arr", "null"} -> "object"
      [] v.t = "str" -> "string"
      [] v.t = "num" -> "number"
      [] v.t = "bool" -> "boolean"
      [] OTHER -> "undefined"

\* JavaScript truthiness
Truthy(v) ==
    CASE v.t \in {"null", "undefined"} -> FALSE
      [] v.t = "num" -> v.n # 0
      [] v.t = "str" -> v.s # ""
      [] v.t = "bool" -> v.b
      [] OTHER -> TRUE

-----------------------------------------------------------------------------
(* deepMerge, config-management.ts 277-289.  `key in target` throws a      *)
(* TypeError when target is not an object; the result is Threw then.       *)

RECURSIVE deepMerge(_, _)
deepMerge(target, source) ==
    LET src == OwnProps(source)
        out == OwnProps(target)
        recurse(k) == InstanceOfObject(src[k])
        inThrows == \E k \in DOMAIN src : recurse(k) /\ ~InstanceOfObject(target)
        merged(k) == IF recurse(k) /\ k \in DOMAIN out
                     THEN deepMerge(out[k], src[k])
                     ELSE src[k]
    IN  IF inThrows \/ (\E k \in DOMAIN src : merged(k) = Threw)
        THEN Threw
        ELSE Obj([k \in DOMAIN out \cup DOMAIN src |->
                    IF k \in DOMAIN src THEN merged(k) ELSE out[k]])

-----------------------------------------------------------------------------
(* JSON Schema nodes: a fragment id, the fixed properties, the wildcard    *)
(* additionalProperties (absent, the boolean false, or a node) and the     *)
(* array item schema.                                                      *)

NoNode == [id |-> "absent"]
FalseSchema == [id |-> "false"]
Node(id, props, ap, items) == [id |-> id, props |-> props, ap |-> ap, items |-> items]
Leaf(id) == Node(id, <<>>, NoNode, NoNode)

\* A schema value in a condition: undefined and false are falsy.
SchemaTruthy(n) == n \notin {NoNode, FalseSchema}
Props(n) == IF "props" \in DOMAIN n THEN n.props ELSE <<>>
AdditionalProperties(n) == IF "ap" \in DOMAIN n THEN n.ap ELSE NoNode
Items(n) == IF "items" \in DOMAIN n THEN n.items ELSE NoNode
\* node.properties?.[part]
Prop(n, part) == IF part \in DOMAIN Props(n) THEN Props(n)[part] ELSE NoNode

\* The configuration schema as far as the validator reads it: its top-level
\* property names.
ConfigSchema ==
    Node("root",
         [model |-> Leaf("model"), theme |-> Leaf("theme"),
          provider |-> Node("provider", <<>>, Leaf("providerEntry"), NoNode),
          mcp |-> Node("mcp", <<>>, Leaf("mcpEntry"), NoNode)],
         FalseSchema, NoNode)

-----------------------------------------------------------------------------
(* loadConfigSchema, data-loaders 116-151.  remote is the outcome of the   *)
(* fetch: NoNode for a response that is not ok, FetchRejected for a fetch   *)
(* that rejects, else the schema served.  persist is the outcome of the    *)
(* writeFile of line 145: done, refused with the file untouched, or failed *)
(* after the file was truncated.  The result tells what was returned or    *)
(* thrown, the cache and the file afterwards, and whether the file was read *)
(* and the remote source contacted.                                        *)

NoSchema == NoNode
CorruptFile == [id |-> "corrupt"]
FetchRejected == [id |-> "rejected"]
PersistOutcomes == {"ok", "refused", "truncated"}

\* loadConfigSchema without the cache test of lines 118-120.
loadConfigSchemaUncached(cache, file, forceUpdate, remote, persist) ==
    LET r == [ok |-> FALSE, error |-> "none", schema |-> NoSchema, cache |-> cache,
              file |-> file, read |-> ~forceUpdate, fetched |-> TRUE]
    IN  IF ~forceUpdate /\ file \notin {NoSchema, CorruptFile}
        THEN [r EXCEPT !.ok = TRUE, !.schema = file, !.cache = file, !.fetched = FALSE]
        ELSE IF remote = NoNode THEN [r EXCEPT !.error = "DataFetchError"]
        ELSE IF remote = FetchRejected THEN [r EXCEPT !.error = "TypeError: fetch failed"]
        ELSE IF persist # "ok"
        THEN [r EXCEPT !.error = "IOError",
                       !.file = IF persist = "truncated" THEN CorruptFile ELSE file]
        ELSE [r EXCEPT !.ok = TRUE, !.schema = remote, !.cache = remote, !.file = remote]

\* loadConfigSchema assigning the cache before the writeFile of line 145.
loadConfigSchemaCacheFirst(cache, file, forceUpdate, remote, persist) ==
    LET r == [ok |-> FALSE, error |-> "none", schema |-> NoSchema, cache |-> cache,
              file |-> file, read |-> ~forceUpdate, fetched |-> TRUE]
    IN  IF ~forceUpdate /\ cache # NoSchema
        THEN [r EXCEPT !.ok = TRUE, !.schema = cache, !.read = FALSE, !.fetched = FALSE]
        ELSE IF ~forceUpdate /\ file \notin {NoSchema, CorruptFile}
        THEN [r EXCEPT !.ok = TRUE, !.schema = file, !.cache = file, !.fetched = FALSE]
        ELSE IF remote = NoNode THEN [r EXCEPT !.error = "DataFetchError"]
        ELSE IF remote = FetchRejected THEN [r EXCEPT !.error = "TypeError: fetch failed"]
        ELSE IF persist # "ok"
        THEN [r EXCEPT !.error = "IOError", !.cache = remote,
                       !.file = IF persist = "truncated" THEN CorruptFile ELSE file]
        ELSE [r EXCEPT !.ok = TRUE, !.schema = remote, !.cache = remote, !.file = remote]

\* loadConfigSchema caching the fallback of a failed fetch: an empty schema.
loadConfigSchemaFallback(cache, file, forceUpdate, remote, persist) ==
    LET r == [ok |-> FALSE, error |-> "none", schema |-> NoSchema, cache |-> cache,
              file |-> file, read |-> ~forceUpdate, fetched |-> TRUE]
    IN  IF ~forceUpdate /\ cache # NoSchema
        THEN [r EXCEPT !.ok = TRUE, !.schema = cache, !.read = FALSE, !.fetched = FALSE]
        ELSE IF ~forceUpdate /\ file \notin {NoSchema, CorruptFile}
        THEN [r EXCEPT !.ok = TRUE, !.schema = file, !.cache = file, !.fetched = FALSE]
        ELSE IF remote \in {NoNode, FetchRejected}
        THEN [r EXCEPT !.ok = TRUE, !.schema = Leaf("empty"), !.cache = Leaf("empty")]
        ELSE IF persist # "ok"
        THEN [r EXCEPT !.error = "IOError",
                       !.file = IF persist = "truncated" THEN CorruptFile ELSE file]
        ELSE [r EXCEPT !.ok = TRUE, !.schema = remote, !.cache = remote, !.file = remote]

loadConfigSchema(cache, file, forceUpdate, remote, persist) ==
    LET \* what a call that gets past the cache throws, unless it returns
        r == [ok |-> FALSE, error |-> "none", schema |-> NoSchema, cache |-> cache,
              file |-> file, read |-> ~forceUpdate, fetched |-> TRUE]
    IN  IF ~forceUpdate /\ cache # NoSchema
        THEN [r EXCEPT !.ok = TRUE, !.schema = cache, !.read = FALSE, !.fetched = FALSE]
        ELSE IF ~forceUpdate /\ file \notin {NoSchema, CorruptFile}
        THEN [r EXCEPT !.ok = TRUE, !.schema = file, !.cache = file, !.fetched = FALSE]
        ELSE IF remote = NoNode THEN [r EXCEPT !.error = "DataFetchError"]
        ELSE IF remote = FetchRejected THEN [r EXCEPT !.error = "TypeError: fetch failed"]
        ELSE IF persist # "ok"
        THEN [r EXCEPT !.error = "IOError",
                       !.file = IF persist = "truncated" THEN CorruptFile ELSE file]
        ELSE [r EXCEPT !.ok = TRUE, !.schema = remote, !.cache = remote, !.file = remote]

-----------------------------------------------------------------------------
(* validateConfigData, config-management.ts 298-339: the set of errors.    *)

Err(rule, key) == [rule |-> rule, key |-> key]

UnknownKeyErrors(config, schema) ==
    {Err("unknown key", k) : k \in DOMAIN OwnProps(config) \ DOMAIN Props(schema)}

ProviderErrors(config) ==
    LET provider == Get(config, "provider") IN
    IF Truthy(provider)
    THEN {Err("provider must be an object", id) :
            id \in {k \in DOMAIN OwnProps(provider) : TypeOf(OwnProps(provider)[k]) # "object"}}
    ELSE {}

\* The check of one mcp entry that takes any type that is set.
McpEntryErrorAnyType(name, server) ==
    IF TypeOf(server) # "object" \/ server = Null
    THEN {Err("mcp must be an object", name)}
    ELSE IF ~Truthy(Get(server, "type"))
    THEN {Err("mcp type is required", name)}
    ELSE {}

McpEntryError(name, server) ==
    IF TypeOf(server) # "object" \/ server = Null
    THEN {Err("mcp must be an object", name)}
    ELSE IF ~Truthy(Get(server, "type"))
    THEN {Err("mcp type is required", name)}
    ELSE IF Get(server, "type") \notin {Str("local"), Str("remote")}
    THEN {Err("mcp type must be local or remote", name)}
    ELSE {}

McpErrors(config) ==
    LET mcp == Get(config, "mcp") IN
    IF Truthy(mcp)
    THEN UNION {McpEntryError(k, OwnProps(mcp)[k]) : k \in DOMAIN OwnProps(mcp)}
    ELSE {}

\* A validator that returns at the first rule that finds errors.
validateConfigDataFailFast(config, schema) ==
    IF UnknownKeyErrors(config, schema) # {} THEN UnknownKeyErrors(config, schema)
    ELSE IF ProviderErrors(config) # {} THEN ProviderErrors(config)
    ELSE McpErrors(config)

\* Every push carries a text that names its rule and its key, so no two
\* pushes of one pass are equal and the list is given as a set.
validateConfigData(config, schema) ==
    UnknownKeyErrors(config, schema) \cup ProviderErrors(config) \cup McpErrors(config)

-----------------------------------------------------------------------------
(* Bounds of the model.                                                    *)

\* writeConfig invocations in one behaviour of Spec
MaxCalls == 1
\* writeConfig invocations, one after the other, in one behaviour of SpecSeq
MaxSeqCalls == 2
\* backup files found in the backup directory at start, beyond the retention count
MaxExtra == 1
\* segments in a schema path
MaxPathLen == 3
\* times the maximum cache age passes between requests
MaxDays == 2
\* requests the request layer serves in one behaviour of SpecServer
MaxRequests == 2

-----------------------------------------------------------------------------
(* The file system: config files, the global directory, backup directories *)

Scopes == {"project", "global"}
Procs == {1, 2}

PROJECT_CONFIG_PATHS == <<"./opencode.jsonc", "./opencode.json">>
GLOBAL_CONFIG_PATHS == <<"~/.config/opencode/opencode.jsonc", "~/.config/opencode/opencode.json">>
ConfigPaths == {PROJECT_CONFIG_PATHS[i] : i \in 1..2} \cup {GLOBAL_CONFIG_PATHS[i] : i \in 1..2}
NoPath == "null"

\* path.basename(configPath) and configPath.endsWith(".jsonc")
Basename(path) ==
    IF path \in {PROJECT_CONFIG_PATHS[1], GLOBAL_CONFIG_PATHS[1]}
    THEN "opencode.jsonc" ELSE "opencode.json"
EndsWithJsonc(path) == Basename(path) = "opencode.jsonc"

\* File contents: no file, text that is no JSON, or a text holding a JSON
\* document, with or without the leading comment line of the .jsonc wrapper.
Absent == [k |-> "absent"]
Garbage == [k |-> "garbage"]
Text(header, doc) == [k |-> "text", header |-> header, json |-> doc]

Exists(fs, path) == fs[path] # Absent

\* parseJSONC: comments are skipped; a text that is no JSON value parses to undefined.
parseJSONC(content) == IF content.k = "text" THEN content.json ELSE Undefined

\* JSON.stringify, as the value its text denotes: a member whose value is
\* undefined is left out, undefined in an array is written null.
RECURSIVE JSONStringify(_)
JSONStringify(v) ==
    CASE v.t = "obj" ->
            Obj([k \in {j \in DOMAIN v.f : v.f[j] # Undefined} |-> JSONStringify(v.f[k])])
      [] v.t = "arr" ->
            Arr([i \in 1..Len(v.e) |->
                    IF v.e[i] = Undefined THEN Null ELSE JSONStringify(v.e[i])])
      [] OTHER -> v

\* A text whose comment line the parser does not skip.
SerializeUnparsedHeader(path, doc) ==
    IF doc = Undefined \/ EndsWithJsonc(path)
    THEN Garbage
    ELSE Text(FALSE, JSONStringify(doc))

\* The text writeConfig builds at lines 150-153; JSON.stringify(undefined) is
\* undefined, and the text "undefined" is no JSON.
Serialize(path, doc) ==
    IF doc = Undefined
    THEN Garbage
    ELSE Text(EndsWithJsonc(path), JSONStringify(doc))

\* The candidates with the global files first for scope auto.
CandidatePathsGlobalFirst(scope) ==
    CASE scope = "global" -> GLOBAL_CONFIG_PATHS
      [] scope = "project" -> PROJECT_CONFIG_PATHS
      [] OTHER -> GLOBAL_CONFIG_PATHS \o PROJECT_CONFIG_PATHS

CandidatePaths(scope) ==
    CASE scope = "global" -> GLOBAL_CONFIG_PATHS
      [] scope = "project" -> PROJECT_CONFIG_PATHS
      [] OTHER -> PROJECT_CONFIG_PATHS \o GLOBAL_CONFIG_PATHS

\* findConfigFile, lines 31-48: the first candidate that exists.
findConfigFile(fs, scope) ==
    LET paths == CandidatePaths(scope)
        hits == {i \in 1..Len(paths) : Exists(fs, paths[i])}
    IN  IF hits = {} THEN NoPath
        ELSE paths[CHOOSE i \in hits : \A j \in hits : i <= j]

\* A file of a backup directory.  A backup is named <base>.backup.<ts>; any
\* other file has isBackup FALSE (its name does not include ".backup.").
BackupFile(base, ts, mtime, content) ==
    [isBackup |-> TRUE, base |-> base, ts |-> ts, mtime |-> mtime, content |-> content]
OtherFile(mtime) ==
    [isBackup |-> FALSE, base |-> "notes.txt", ts |-> 0, mtime |-> mtime, content |-> Garbage]
BackupName(f) == <<f.base, f.ts>>
BackupFiles(dir) == {f \in dir : f.isBackup}

\* A copy that leaves a backup of that name without the content.
CopyIntoEmpty(dir, new) ==
    {f \in dir : ~(f.isBackup /\ BackupName(f) = BackupName(new))}
    \cup {[new EXCEPT !.content = Absent]}

\* fs.copyFile(configPath, backupPath): creates the backup or overwrites the
\* file of that name.
CopyInto(dir, new) ==
    {f \in dir : ~(f.isBackup /\ BackupName(f) = BackupName(new))} \cup {new}

DEFAULT_BACKUP_COUNT == 5
\* The literal retention count writeConfig passes at line 146.
KeepBackups == 5

\* cleanupOldBackups with the comparison of line 370 reversed: oldest first.
cleanupOldBackupsAscending(dir, keep) ==
    LET backupFiles == BackupFiles(dir)
        n == Cardinality(backupFiles)
        toDelete == {D \in SUBSET backupFiles :
                        /\ Cardinality(D) = n - keep
                        /\ \A d \in D, s \in backupFiles \ D : d.mtime >= s.mtime}
        prefixes(D) == {P \in SUBSET D :
                        /\ P # D
                        /\ \A q \in P, d \in D \ P : q.mtime <= d.mtime}
    IN  {[dir |-> dir, fault |-> "readdir"]} \cup
        IF n <= keep
        THEN {[dir |-> dir, fault |-> "none"]}
        ELSE {[dir |-> dir, fault |-> "stat"]}
             \cup {[dir |-> dir \ D, fault |-> "none"] : D \in toDelete}
             \cup UNION {{[dir |-> dir \ P, fault |-> "unlink"] : P \in prefixes(D)} :
                            D \in toDelete}

(* cleanupOldBackups, lines 348-380.  The outcomes of one pass over dir:   *)
(* readdir may fail, a stat may fail, and an unlink may fail after some of *)
(* the files to delete are gone; every error is caught at line 377.  The   *)
(* sort is by mtime, newest first; files of equal mtime keep the order     *)
(* readdir gave them, which is any.                                        *)
cleanupOldBackups(dir, keep) ==
    LET backupFiles == BackupFiles(dir)
        n == Cardinality(backupFiles)
        \* slice(keep) of some sorted order
        toDelete == {D \in SUBSET backupFiles :
                        /\ Cardinality(D) = n - keep
                        /\ \A d \in D, s \in backupFiles \ D : d.mtime <= s.mtime}
        \* what is unlinked before an unlink fails: a proper prefix of toDelete
        prefixes(D) == {P \in SUBSET D :
                        /\ P # D
                        /\ \A q \in P, d \in D \ P : q.mtime >= d.mtime}
    IN  {[dir |-> dir, fault |-> "readdir"]} \cup
        IF n <= keep
        THEN {[dir |-> dir, fault |-> "none"]}
        ELSE {[dir |-> dir, fault |-> "stat"]}
             \cup {[dir |-> dir \ D, fault |-> "none"] : D \in toDelete}
             \cup UNION {{[dir |-> dir \ P, fault |-> "unlink"] : P \in prefixes(D)} :
                            D \in toDelete}

-----------------------------------------------------------------------------
(* writeConfig, lines 90-158, one action per group of awaited calls.       *)

IdleCall ==
    [pc |-> "idle", scope |-> "project", config |-> EmptyObj, mode |-> "merge",
     createBackup |-> TRUE, configPath |-> NoPath, isNewFile |-> FALSE,
     existing |-> Undefined, finalConfig |-> EmptyObj, errors |-> {},
     outcome |-> "none", report |-> <<>>,
     backupWritten |-> FALSE, backupName |-> <<"", 0>>, cleaned |-> FALSE,
     cleanupFault |-> "none", rotated |-> {}, pre |-> <<>>, prev |-> <<>>,
     overlapped |-> FALSE, order |-> 0]

\* args.mode ?? "merge" and args.create_backup ?? true
Mode(modeArg) == IF modeArg = "undefined" THEN "merge" ELSE modeArg
CreateBackup(backupArg) == IF backupArg = "undefined" THEN TRUE ELSE backupArg = "true"

InProgress(c) == c.pc \notin {"idle", "done"}

\* The call ends with an exception.
Throw(c, error) == [c EXCEPT !.pc = "done", !.outcome = error]

\* A request arrives; the state at that moment is kept in pre, and the call
\* that came before it in prev.
Begin(p, limit, scope, config, modeArg, backupArg) ==
    /\ nCalls < limit
    /\ ~InProgress(calls[p])
    /\ \A q \in Procs \ {p} : ~InProgress(calls[q])
    /\ nCalls' = nCalls + 1
    /\ calls' = [calls EXCEPT ![p] =
                    [IdleCall EXCEPT !.pc = "locate", !.scope = scope, !.config = config,
                                     !.mode = Mode(modeArg),
                                     !.createBackup = CreateBackup(backupArg),
                                     !.pre = [files |-> files, backups |-> backups],
                                     !.prev = [scope |-> calls[p].scope,
                                               config |-> calls[p].config,
                                               mode |-> calls[p].mode,
                                               outcome |-> calls[p].outcome]]]
    /\ UNCHANGED <<files, globalDir, backups, clock, configSchemaCache, schemaFile,
                   taken, snip, tool, loadedAt, catalogVars, service>>

\* A request arrives while another call may be suspended at one of its awaits;
\* overlapped records whether one is.
BeginConcurrent(p, scope, config, modeArg, backupArg) ==
    /\ calls[p].pc = "idle"
    /\ nCalls' = nCalls + 1
    /\ calls' = [calls EXCEPT ![p] =
                    [IdleCall EXCEPT !.pc = "locate", !.scope = scope, !.config = config,
                                     !.mode = Mode(modeArg),
                                     !.createBackup = CreateBackup(backupArg),
                                     !.pre = [files |-> files, backups |-> backups],
                                     !.overlapped = \E q \in Procs \ {p} :
                                                        InProgress(calls[q])]]
    /\ UNCHANGED <<files, globalDir, backups, clock, configSchemaCache, schemaFile,
                   taken, snip, tool, loadedAt, catalogVars, service>>

\* writeConfig targeting the first candidate whatever file exists.
LocateFirstCandidate(p) ==
    LET c == calls[p]
        found == findConfigFile(files, c.scope)
        path == CandidatePaths(c.scope)[1]
    IN  /\ c.pc = "locate"
        /\ globalDir' = (globalDir \/ (c.scope = "global" /\ found = NoPath))
        /\ calls' = [calls EXCEPT ![p] =
                        [c EXCEPT !.pc = "merge", !.configPath = path,
                                  !.isNewFile = ~Exists(files, path)]]
        /\ UNCHANGED <<files, backups, clock, configSchemaCache, schemaFile,
                       nCalls, taken, snip, tool, loadedAt, catalogVars, service>>

\* Lines 99-118: the target path, the global directory, isNewFile.
Locate(p) ==
    LET c == calls[p]
        found == findConfigFile(files, c.scope)
        path == IF found # NoPath THEN found ELSE CandidatePaths(c.scope)[1]
    IN  /\ c.pc = "locate"
        /\ globalDir' = (globalDir \/ (c.scope = "global" /\ found = NoPath))
        /\ calls' = [calls EXCEPT ![p] =
                        [c EXCEPT !.pc = "merge", !.configPath = path,
                                  !.isNewFile = ~Exists(files, path)]]
        /\ UNCHANGED <<files, backups, clock, configSchemaCache, schemaFile,
                       nCalls, taken, snip, tool, loadedAt, catalogVars, service>>

\* writeConfig merging whenever the file exists, whatever the mode.
FinalConfigAlwaysMerged(c, fs) ==
    IF ~c.isNewFile
    THEN deepMerge(parseJSONC(fs[c.configPath]), c.config)
    ELSE c.config

\* Lines 120-127: the document to persist.
FinalConfig(c, fs) ==
    IF c.mode = "merge" /\ ~c.isNewFile
    THEN deepMerge(parseJSONC(fs[c.configPath]), c.config)
    ELSE c.config

Merge(p) ==
    LET c == calls[p]
        final == FinalConfig(c, files)
    IN  /\ c.pc = "merge"
        /\ calls' = [calls EXCEPT ![p] =
                        IF final = Threw
                        THEN Throw(c, "TypeError")
                        ELSE [c EXCEPT !.pc = "validate", !.finalConfig = final,
                                       !.existing = IF c.mode = "merge" /\ ~c.isNewFile
                                                    THEN parseJSONC(files[c.configPath])
                                                    ELSE Undefined]]
        /\ UNCHANGED <<files, globalDir, backups, clock, configSchemaCache, schemaFile,
                       nCalls, taken, snip, tool, loadedAt, catalogVars, service>>

\* What a fetch of CONFIG_SCHEMA_URL can give: a response that is not ok, a
\* rejection, or the schema.
RemoteOutcomes == {NoNode, FetchRejected, ConfigSchema}
NeedsFetch(forceUpdate) ==
    forceUpdate \/ (configSchemaCache = NoSchema /\ schemaFile \in {NoSchema, CorruptFile})
\* The outcomes of the environment a call of loadConfigSchema can meet.
FetchOutcomes(forceUpdate) == IF NeedsFetch(forceUpdate) THEN RemoteOutcomes ELSE {NoNode}
WriteOutcomes(forceUpdate, remote) ==
    IF NeedsFetch(forceUpdate) /\ remote \notin {NoNode, FetchRejected}
    THEN PersistOutcomes ELSE {"ok"}

\* The clock at the last assignment of the cache (lines 128 and 148).
LoadedAt(r) == IF r.ok /\ (r.read \/ r.fetched) THEN clock ELSE loadedAt

\* Line 307: Object.keys(config) throws a TypeError for null and undefined.
ValidationThrows(config) == config.t \in {"null", "undefined"}

\* writeConfig without the gate of lines 131-133.
AfterValidationUngated(c, errors) ==
    [c EXCEPT !.pc = IF c.createBackup /\ ~c.isNewFile THEN "backup" ELSE "write",
              !.errors = errors]

\* Lines 131-136: a validation failure is thrown with all its errors; else the
\* backup is taken when asked for and the file is not new.
AfterValidation(c, errors) ==
    IF errors # {}
    THEN [Throw(c, "ConfigValidationError") EXCEPT !.errors = errors]
    ELSE [c EXCEPT !.pc = IF c.createBackup /\ ~c.isNewFile THEN "backup" ELSE "write"]

\* Lines 129-133: validateConfigData loads the schema and validates.
Validate(p) ==
    \E remote \in FetchOutcomes(FALSE) :
    \E persist \in WriteOutcomes(FALSE, remote) :
        LET c == calls[p]
            r == loadConfigSchema(configSchemaCache, schemaFile, FALSE, remote, persist)
            errors == validateConfigData(c.finalConfig, r.schema)
        IN  /\ c.pc = "validate"
            /\ configSchemaCache' = r.cache
            /\ schemaFile' = r.file
            /\ calls' = [calls EXCEPT ![p] =
                            IF ~r.ok THEN Throw(c, r.error)
                            ELSE IF ValidationThrows(c.finalConfig) THEN Throw(c, "TypeError")
                            ELSE AfterValidation(c, errors)]
            /\ loadedAt' = LoadedAt(r)
            /\ UNCHANGED <<files, globalDir, backups, clock, nCalls, taken, snip, tool, catalogVars, service>>

\* Lines 136-143: mkdir of the backup directory, the timestamp, copyFile.
\* The clock is read for the timestamp and again, by the file system, for the
\* mtime of the copy; it may or may not have advanced a millisecond each time.
Backup(p) ==
    \E ts \in {clock, clock + 1}, copied \in BOOLEAN :
    \E mtime \in {ts, ts + 1} :
        LET c == calls[p]
            new == BackupFile(Basename(c.configPath), ts, mtime, files[c.configPath])
        IN  /\ c.pc = "backup"
            /\ IF copied
               THEN /\ backups' = [backups EXCEPT ![c.scope] = CopyInto(@, new)]
                    /\ clock' = mtime
                    /\ calls' = [calls EXCEPT ![p] =
                                    [c EXCEPT !.pc = "cleanup", !.backupWritten = TRUE,
                                              !.backupName = BackupName(new),
                                              !.rotated = CopyInto(backups[c.scope], new)]]
               ELSE /\ mtime = ts
                    /\ clock' = ts
                    /\ calls' = [calls EXCEPT ![p] = Throw(c, "IOError")]
                    /\ UNCHANGED backups
            /\ UNCHANGED <<files, globalDir, configSchemaCache, schemaFile,
                           nCalls, taken, snip, tool, loadedAt,
                           catalogVars, service>>

\* cleanupOldBackups without its try/catch: the error reaches writeConfig.
AfterCleanupPropagating(c, o) ==
    IF o.fault # "none"
    THEN [Throw(c, "IOError") EXCEPT !.cleaned = TRUE, !.cleanupFault = o.fault]
    ELSE [c EXCEPT !.pc = "write", !.cleaned = TRUE, !.cleanupFault = o.fault]

\* The try/catch of lines 349 and 377-379: the pass returns normally, with or
\* without an error.
AfterCleanup(c, o) ==
    [c EXCEPT !.pc = "write", !.cleaned = TRUE, !.cleanupFault = o.fault]

\* Line 146: cleanupOldBackups(backupDir, 5); whatever it meets, it returns.
Cleanup(p) ==
    LET c == calls[p] IN
    /\ c.pc = "cleanup"
    /\ \E o \in cleanupOldBackups(backups[c.scope], KeepBackups) :
        /\ backups' = [backups EXCEPT ![c.scope] = o.dir]
        /\ calls' = [calls EXCEPT ![p] = AfterCleanup(c, o)]
    /\ UNCHANGED <<files, globalDir, clock, configSchemaCache, schemaFile,
                   nCalls, taken, snip, tool, loadedAt, catalogVars, service>>

\* A result that reports a backup whenever one was asked for.
ReportAsRequested(c) ==
    [created |-> c.isNewFile, file |-> c.configPath, mode |-> c.mode,
     backupCreated |-> c.createBackup]

\* Line 157: the result text, as the fields it reports.
Report(c) ==
    [created |-> c.isNewFile, file |-> c.configPath, mode |-> c.mode,
     backupCreated |-> c.createBackup /\ ~c.isNewFile]

\* Lines 149-157: the file is written and the result returned; order counts
\* the writes of line 155 as they complete.
Write(p) ==
    LET c == calls[p] IN
    /\ c.pc = "write"
    /\ files' = [files EXCEPT ![c.configPath] = Serialize(c.configPath, c.finalConfig)]
    /\ calls' = [calls EXCEPT ![p] =
                    [c EXCEPT !.pc = "done", !.outcome = "ok",
                              !.report = Report(c),
                              !.order = 1 + Cardinality({q \in Procs : calls[q].order > 0})]]
    /\ taken' = IF c.createBackup /\ ~c.isNewFile
                THEN [taken EXCEPT ![c.scope].names = Append(@, c.backupName)]
                ELSE taken
    /\ UNCHANGED <<globalDir, backups, clock, configSchemaCache, schemaFile, nCalls, snip, tool, loadedAt,
                    catalogVars, service>>

\* Line 155 throws: fs.writeFile opens the target for writing, which empties
\* it, and writes; it fails before the file is touched, or after, and then
\* the target is left with a part of the text or none.
WriteFails(p) ==
    \E persist \in PersistOutcomes \ {"ok"} :
        LET c == calls[p] IN
        /\ c.pc = "write"
        /\ files' = IF persist = "truncated"
                     THEN [files EXCEPT ![c.configPath] = Garbage]
                     ELSE files
        /\ calls' = [calls EXCEPT ![p] = Throw(c, "IOError")]
        /\ UNCHANGED <<globalDir, backups, clock, configSchemaCache, schemaFile,
                       nCalls, taken, snip, tool, loadedAt, catalogVars, service>>

-----------------------------------------------------------------------------
(* The read-side tools: readConfig (lines 53-85), validateConfig (lines    *)
(* 163-193), and the get-schema and update-config-schema handlers of the   *)
(* tool registry.  Each is one action; tool keeps what the invocation was  *)
(* given, what it met and what it returned or threw.                       *)

IdleTool ==
    [op |-> "none", outcome |-> "none", scope |-> "none", configPath |-> NoPath,
     searched |-> <<>>, config |-> Undefined, errors |-> {}, available |-> {},
     part |-> "", parts |-> <<>>, schema |-> NoSchema, node |-> NoNode,
     force |-> FALSE,
     loaded |-> FALSE, read |-> FALSE, fetched |-> FALSE, remote |-> NoNode,
     cacheBefore |-> NoSchema, fileBefore |-> NoSchema, files |-> <<>>]

\* args.scope ?? "auto"
ScopeOrAuto(scopeArg) == IF scopeArg = "undefined" THEN "auto" ELSE scopeArg

\* An invocation that called loadConfigSchema: what the call met and did.
WithLoad(rec, r, forceUpdate, remote) ==
    [rec EXCEPT !.loaded = TRUE, !.force = forceUpdate, !.read = r.read,
                !.fetched = r.fetched, !.remote = IF r.fetched THEN remote ELSE NoNode,
                !.schema = r.schema,
                !.cacheBefore = configSchemaCache, !.fileBefore = schemaFile]

\* Lines 60-68: the not-found text lists the paths of the scope.
NotFoundResult(rec, scope) ==
    [rec EXCEPT !.outcome = "notFound", !.searched = CandidatePaths(scope)]

ReadConfig(scopeArg, section) ==
    LET scope == ScopeOrAuto(scopeArg)
        configPath == findConfigFile(files, scope)
        rec == [IdleTool EXCEPT !.op = "read-config", !.scope = scope,
                                !.configPath = configPath, !.files = files]
        config == parseJSONC(files[configPath])
    IN  /\ tool' =
            IF configPath = NoPath THEN NotFoundResult(rec, scope)
            ELSE IF section = "undefined" THEN [rec EXCEPT !.outcome = "ok", !.config = config]
            ELSE IF config.t \in {"null", "undefined"} THEN [rec EXCEPT !.outcome = "TypeError"]
            ELSE IF Get(config, section) = Undefined
            THEN [rec EXCEPT !.outcome = "sectionNotFound", !.part = section,
                             !.available = DOMAIN OwnProps(config)]
            ELSE [rec EXCEPT !.outcome = "ok", !.part = section,
                             !.config = Obj([k \in {section} |-> Get(config, section)])]
        /\ UNCHANGED <<files, globalDir, backups, clock, configSchemaCache, schemaFile,
                       calls, nCalls, taken, snip, loadedAt, catalogVars, service>>

\* Lines 170-182 and 184-192.  Without config_data and without a file the
\* result is the text of line 177 and the schema is not loaded.
ValidateConfig(scopeArg, configData) ==
    LET useData == Truthy(configData)
        scope == ScopeOrAuto(scopeArg)
        configPath == IF useData THEN NoPath ELSE findConfigFile(files, scope)
        rec == [IdleTool EXCEPT !.op = "validate-config",
                                !.scope = IF useData THEN "none" ELSE scope,
                                !.configPath = configPath, !.files = files]
    IN  IF ~useData /\ configPath = NoPath
        THEN /\ tool' = [rec EXCEPT !.outcome = "notFound"]
             /\ UNCHANGED <<files, globalDir, backups, clock, configSchemaCache, schemaFile,
                            calls, nCalls, taken, snip, loadedAt,
                            catalogVars, service>>
        ELSE \E remote \in FetchOutcomes(FALSE) :
             \E persist \in WriteOutcomes(FALSE, remote) :
                LET config == IF useData THEN configData ELSE parseJSONC(files[configPath])
                    r == loadConfigSchema(configSchemaCache, schemaFile, FALSE, remote, persist)
                    errors == validateConfigData(config, r.schema)
                    met == [WithLoad(rec, r, FALSE, remote) EXCEPT !.config = config]
                IN  /\ tool' =
                        IF ~r.ok THEN [met EXCEPT !.outcome = r.error]
                        ELSE IF ValidationThrows(config) THEN [met EXCEPT !.outcome = "TypeError"]
                        ELSE [met EXCEPT !.outcome = IF errors = {} THEN "valid" ELSE "invalid",
                                         !.errors = errors]
                    /\ configSchemaCache' = r.cache
                    /\ schemaFile' = r.file
                    /\ loadedAt' = LoadedAt(r)
                    /\ UNCHANGED <<files, globalDir, backups, clock, calls, nCalls, taken, snip, catalogVars, service>>

\* The loop of the get-schema handler, lines 69-80: at every segment
\* properties[part], else additionalProperties, else items, else an error
\* that lists the keys of properties.
RECURSIVE GetSchemaWalk(_, _, _)
GetSchemaWalk(current, parts, i) ==
    IF i > Len(parts) THEN [ok |-> TRUE, node |-> current, part |-> "", available |-> {}]
    ELSE IF SchemaTruthy(Prop(current, parts[i]))
    THEN GetSchemaWalk(Prop(current, parts[i]), parts, i + 1)
    ELSE IF SchemaTruthy(AdditionalProperties(current))
    THEN GetSchemaWalk(AdditionalProperties(current), parts, i + 1)
    ELSE IF SchemaTruthy(Items(current))
    THEN GetSchemaWalk(Items(current), parts, i + 1)
    ELSE [ok |-> FALSE, node |-> current, part |-> parts[i],
          available |-> DOMAIN Props(current)]

\* The get-schema handler, lines 57-83.  parts is the path split on "."; no
\* path and the path "full" give the whole schema.
GetSchema(parts) ==
    \E remote \in FetchOutcomes(FALSE) :
    \E persist \in WriteOutcomes(FALSE, remote) :
        LET r == loadConfigSchema(configSchemaCache, schemaFile, FALSE, remote, persist)
            rec == [IdleTool EXCEPT !.op = "get-schema", !.parts = parts, !.files = files]
            met == WithLoad(rec, r, FALSE, remote)
            w == GetSchemaWalk(r.schema, parts, 1)
        IN  /\ tool' =
                IF ~r.ok THEN [met EXCEPT !.outcome = r.error]
                ELSE IF parts \in {<<>>, <<"full">>}
                THEN [met EXCEPT !.outcome = "ok", !.node = r.schema]
                ELSE IF w.ok THEN [met EXCEPT !.outcome = "ok", !.node = w.node]
                ELSE [met EXCEPT !.outcome = "SchemaPathError", !.part = w.part,
                                 !.available = w.available]
            /\ configSchemaCache' = r.cache
            /\ schemaFile' = r.file
            /\ loadedAt' = LoadedAt(r)
            /\ UNCHANGED <<files, globalDir, backups, clock, calls, nCalls, taken, snip, catalogVars, service>>

\* The update-config-schema handler, lines 90-93: loadConfigSchema(true).
UpdateConfigSchema ==
    \E remote \in FetchOutcomes(TRUE) :
    \E persist \in WriteOutcomes(TRUE, remote) :
        LET r == loadConfigSchema(configSchemaCache, schemaFile, TRUE, remote, persist)
            rec == [IdleTool EXCEPT !.op = "update-config-schema", !.files = files]
            met == WithLoad(rec, r, TRUE, remote)
        IN  /\ tool' = [met EXCEPT !.outcome = IF r.ok THEN "ok" ELSE r.error]
            /\ configSchemaCache' = r.cache
            /\ schemaFile' = r.file
            /\ loadedAt' = LoadedAt(r)
            /\ UNCHANGED <<files, globalDir, backups, clock, calls, nCalls, taken, snip, catalogVars, service>>

CACHE_MAX_AGE == 86400000

\* Time passes between two requests: the maximum age of the catalog cache.
Tick ==
    /\ clock < MaxDays * CACHE_MAX_AGE
    /\ clock' = clock + CACHE_MAX_AGE
    /\ UNCHANGED <<files, globalDir, backups, configSchemaCache, schemaFile,
                   calls, nCalls, taken, snip, tool, loadedAt,
                   catalogVars, service>>

-----------------------------------------------------------------------------
(* The catalog cache: loadModelsDevData, data-loaders 59-100, and the      *)
(* models.dev tools that call it.  A catalog is the sequence of its        *)
(* providers in the order Object.entries gives them, each with the number  *)
(* of its models; model j of a provider has reasoning exactly when j is    *)
(* even.  fetchedAt is not part of the data: it records when the remote    *)
(* source served it.                                                       *)

NoCatalog == [id |-> "null"]
Catalog(fetchedAt, providers) == [id |-> "catalog", fetchedAt |-> fetchedAt, providers |-> providers]
Provider(id, models) == [id |-> id, models |-> models]

\* The providers the remote source serves: one with more models than the
\* default limit of search-models, one with two, one with none.
ServedProviders == <<Provider("big", 51), Provider("small", 2), Provider("empty", 0)>>

\* data/models-dev-api.json: absent, or its modification time with either the
\* catalog it holds or no JSON text.
NoCatalogFile == [k |-> "absent"]
CatalogFile(mtime, data) == [k |-> "data", mtime |-> mtime, data |-> data]
CorruptCatalogFile(mtime) == [k |-> "corrupt", mtime |-> mtime]

\* The outcomes of the fetch of MODELS_DEV_URL.
CatalogRemoteOutcomes == {"notOk", "rejected", "served"}

\* Line 61: the cache is valid.
CacheValid(cache, cacheTime, now, forceUpdate) ==
    ~forceUpdate /\ cache # NoCatalog /\ now - cacheTime < CACHE_MAX_AGE
\* Lines 69-73: the file exists and is fresh enough.
FileFresh(file, now, forceUpdate) ==
    file # NoCatalogFile /\ ~forceUpdate /\ now - file.mtime < CACHE_MAX_AGE

\* loadModelsDevData dropping the cached value when the fetch fails.
loadModelsDevDataClearing(cache, cacheTime, file, now, forceUpdate, remote, persist) ==
    LET r == [ok |-> FALSE, error |-> "none", data |-> NoCatalog, cache |-> cache,
              cacheTime |-> cacheTime, file |-> file, served |-> "none", remote |-> "none"]
        fresh == Catalog(now, ServedProviders)
    IN  IF CacheValid(cache, cacheTime, now, forceUpdate)
        THEN [r EXCEPT !.ok = TRUE, !.data = cache, !.served = "memory"]
        ELSE IF FileFresh(file, now, forceUpdate) /\ file.k = "data"
        THEN [r EXCEPT !.ok = TRUE, !.data = file.data, !.cache = file.data,
                       !.cacheTime = now, !.served = "file"]
        ELSE IF remote = "notOk"
        THEN [r EXCEPT !.error = "DataFetchError", !.remote = remote,
                       !.cache = NoCatalog, !.cacheTime = 0]
        ELSE IF remote = "rejected"
        THEN [r EXCEPT !.error = "TypeError: fetch failed", !.remote = remote,
                       !.cache = NoCatalog, !.cacheTime = 0]
        ELSE IF persist # "ok"
        THEN [r EXCEPT !.error = "IOError", !.remote = remote,
                       !.file = IF persist = "truncated" THEN CorruptCatalogFile(now) ELSE file]
        ELSE [r EXCEPT !.ok = TRUE, !.data = fresh, !.cache = fresh, !.cacheTime = now,
                       !.file = CatalogFile(now, fresh), !.served = "remote", !.remote = remote]

\* loadModelsDevData falling back to the persisted copy, whatever its age,
\* when the fetch fails.
loadModelsDevDataFallback(cache, cacheTime, file, now, forceUpdate, remote, persist) ==
    LET r == [ok |-> FALSE, error |-> "none", data |-> NoCatalog, cache |-> cache,
              cacheTime |-> cacheTime, file |-> file, served |-> "none", remote |-> "none"]
        fresh == Catalog(now, ServedProviders)
        fallback == IF file # NoCatalogFile /\ file.k = "data"
                    THEN [r EXCEPT !.ok = TRUE, !.data = file.data, !.cache = file.data,
                                   !.cacheTime = now, !.served = "file", !.remote = remote]
                    ELSE [r EXCEPT !.error = "DataFetchError", !.remote = remote]
    IN  IF CacheValid(cache, cacheTime, now, forceUpdate)
        THEN [r EXCEPT !.ok = TRUE, !.data = cache, !.served = "memory"]
        ELSE IF FileFresh(file, now, forceUpdate) /\ file.k = "data"
        THEN [r EXCEPT !.ok = TRUE, !.data = file.data, !.cache = file.data,
                       !.cacheTime = now, !.served = "file"]
        ELSE IF remote \in {"notOk", "rejected"} THEN fallback
        ELSE IF persist # "ok"
        THEN [r EXCEPT !.error = "IOError", !.remote = remote,
                       !.file = IF persist = "truncated" THEN CorruptCatalogFile(now) ELSE file]
        ELSE [r EXCEPT !.ok = TRUE, !.data = fresh, !.cache = fresh, !.cacheTime = now,
                       !.file = CatalogFile(now, fresh), !.served = "remote", !.remote = remote]

(* loadModelsDevData.  now is Date.now() during the call, remote the        *)
(* outcome of the fetch, persist the outcome of the writeFile of line 93.  *)
(* The result tells what was returned or thrown, where the value came from, *)
(* and the cache, its time and the file afterwards.  A file that cannot be *)
(* parsed throws inside the try of line 68 and the call goes on to fetch.  *)
loadModelsDevData(cache, cacheTime, file, now, forceUpdate, remote, persist) ==
    LET r == [ok |-> FALSE, error |-> "none", data |-> NoCatalog, cache |-> cache,
              cacheTime |-> cacheTime, file |-> file, served |-> "none", remote |-> "none"]
        fresh == Catalog(now, ServedProviders)
    IN  IF CacheValid(cache, cacheTime, now, forceUpdate)
        THEN [r EXCEPT !.ok = TRUE, !.data = cache, !.served = "memory"]
        ELSE IF FileFresh(file, now, forceUpdate) /\ file.k = "data"
        THEN [r EXCEPT !.ok = TRUE, !.data = file.data, !.cache = file.data,
                       !.cacheTime = now, !.served = "file"]
        ELSE IF remote = "notOk"
        THEN [r EXCEPT !.error = "DataFetchError", !.remote = remote]
        ELSE IF remote = "rejected"
        THEN [r EXCEPT !.error = "TypeError: fetch failed", !.remote = remote]
        ELSE IF persist # "ok"
        THEN [r EXCEPT !.error = "IOError", !.remote = remote,
                       !.file = IF persist = "truncated" THEN CorruptCatalogFile(now) ELSE file]
        ELSE [r EXCEPT !.ok = TRUE, !.data = fresh, !.cache = fresh, !.cacheTime = now,
                       !.file = CatalogFile(now, fresh), !.served = "remote", !.remote = remote]

\* Whether a call of loadModelsDevData reaches the fetch, and the outcomes of
\* the environment it can meet.
CatalogNeedsFetch(forceUpdate) ==
    /\ ~CacheValid(modelsDevCache, modelsDevCacheTime, clock, forceUpdate)
    /\ ~(FileFresh(modelsDevFile, clock, forceUpdate) /\ modelsDevFile.k = "data")
CatalogFetchOutcomes(forceUpdate) ==
    IF CatalogNeedsFetch(forceUpdate) THEN CatalogRemoteOutcomes ELSE {"none"}
CatalogWriteOutcomes(forceUpdate, remote) ==
    IF CatalogNeedsFetch(forceUpdate) /\ remote = "served" THEN PersistOutcomes ELSE {"ok"}

IdleQuery ==
    [op |-> "none", outcome |-> "none", force |-> FALSE, now |-> 0, served |-> "none",
     remote |-> "none", data |-> NoCatalog, cacheBefore |-> NoCatalog, timeBefore |-> 0,
     fileBefore |-> NoCatalogFile, args |-> <<>>, results |-> <<>>,
     prev |-> <<>>]

\* An invocation that called loadModelsDevData: what the call met and did,
\* and the invocation that came before it.
WithCatalogLoad(op, r, forceUpdate) ==
    [IdleQuery EXCEPT !.op = op, !.outcome = IF r.ok THEN "ok" ELSE r.error,
                      !.force = forceUpdate, !.now = clock, !.served = r.served,
                      !.remote = r.remote, !.data = r.data,
                      !.cacheBefore = modelsDevCache, !.timeBefore = modelsDevCacheTime,
                      !.fileBefore = modelsDevFile,
                      !.prev = [op |-> query.op, outcome |-> query.outcome,
                                force |-> query.force, cacheBefore |-> query.cacheBefore]]

\* The cache, its time and the file after a call.
CatalogAfter(r) ==
    /\ modelsDevCache' = r.cache
    /\ modelsDevCacheTime' = r.cacheTime
    /\ modelsDevFile' = r.file

\* Lines 88-90 of searchModels, for the capability the model varies.
Reasoning(j) == j % 2 = 0
ModelMatches(args, j) ==
    args.reasoning = "undefined" \/ Reasoning(j) = (args.reasoning = "true")

\* The loop of lines 62-115 over the models of one provider: a model that
\* passes the filters is pushed, and the loop stops once results.length >= limit.
RECURSIVE SearchProvider(_, _, _, _, _)
SearchProvider(provider, j, results, args, limit) ==
    IF j > provider.models THEN results
    ELSE IF ~ModelMatches(args, j) THEN SearchProvider(provider, j + 1, results, args, limit)
    ELSE LET pushed == Append(results, <<provider.id, j>>)
         IN  IF Len(pushed) >= limit THEN pushed
             ELSE SearchProvider(provider, j + 1, pushed, args, limit)

\* The loop of lines 56-120 over the providers; a provider the provider_id
\* filter skips does not reach the test of line 117.
RECURSIVE SearchProviders(_, _, _, _, _)
SearchProviders(providers, i, results, args, limit) ==
    IF i > Len(providers) THEN results
    ELSE IF args.provider_id # "undefined" /\ providers[i].id # args.provider_id
    THEN SearchProviders(providers, i + 1, results, args, limit)
    ELSE LET found == SearchProvider(providers[i], 1, results, args, limit)
         IN  IF Len(found) >= limit THEN found
             ELSE SearchProviders(providers, i + 1, found, args, limit)

\* The literal of line 53: args.limit ?? 50.
SearchLimit == 50
LimitOf(limitArg) == IF limitArg \in {Undefined, Null} THEN SearchLimit ELSE limitArg.n

\* The list-providers handler, models-dev.ts 12-34.
ListProviders ==
    \E remote \in CatalogFetchOutcomes(FALSE) :
    \E persist \in CatalogWriteOutcomes(FALSE, remote) :
        LET r == loadModelsDevData(modelsDevCache, modelsDevCacheTime, modelsDevFile,
                                   clock, FALSE, remote, persist)
        IN  /\ query' = WithCatalogLoad("list-providers", r, FALSE)
            /\ CatalogAfter(r)
            /\ UNCHANGED <<files, globalDir, backups, clock, configSchemaCache, schemaFile,
                           calls, nCalls, taken, snip, tool, loadedAt, service>>

\* The search-models handler, models-dev.ts 39-186; the filters the request
\* does not give are undefined.
SearchModels(args) ==
    \E remote \in CatalogFetchOutcomes(FALSE) :
    \E persist \in CatalogWriteOutcomes(FALSE, remote) :
        LET r == loadModelsDevData(modelsDevCache, modelsDevCacheTime, modelsDevFile,
                                   clock, FALSE, remote, persist)
            met == [WithCatalogLoad("search-models", r, FALSE) EXCEPT !.args = args]
        IN  /\ query' = IF ~r.ok THEN met
                        ELSE [met EXCEPT !.results =
                                SearchProviders(r.data.providers, 1, <<>>, args,
                                                LimitOf(args.limit))]
            /\ CatalogAfter(r)
            /\ UNCHANGED <<files, globalDir, backups, clock, configSchemaCache, schemaFile,
                           calls, nCalls, taken, snip, tool, loadedAt, service>>

\* The get-model-details handler, models-dev.ts 191-288.
GetModelDetails(providerId, modelId) ==
    \E remote \in CatalogFetchOutcomes(FALSE) :
    \E persist \in CatalogWriteOutcomes(FALSE, remote) :
        LET r == loadModelsDevData(modelsDevCache, modelsDevCacheTime, modelsDevFile,
                                   clock, FALSE, remote, persist)
            met == [WithCatalogLoad("get-model-details", r, FALSE) EXCEPT
                        !.args = [provider_id |-> providerId, model_id |-> modelId]]
            hits == {i \in 1..Len(r.data.providers) : r.data.providers[i].id = providerId}
        IN  /\ query' =
                IF ~r.ok THEN met
                ELSE IF hits = {} THEN [met EXCEPT !.outcome = "ProviderNotFoundError"]
                ELSE IF \A i \in hits : modelId > r.data.providers[i].models
                THEN [met EXCEPT !.outcome = "ModelNotFoundError"]
                ELSE met
            /\ CatalogAfter(r)
            /\ UNCHANGED <<files, globalDir, backups, clock, configSchemaCache, schemaFile,
                           calls, nCalls, taken, snip, tool, loadedAt, service>>

\* The update-models-dev-data handler, tool registry 85-88: loadModelsDevData(true).
UpdateModelsDevData ==
    \E remote \in CatalogFetchOutcomes(TRUE) :
    \E persist \in CatalogWriteOutcomes(TRUE, remote) :
        LET r == loadModelsDevData(modelsDevCache, modelsDevCacheTime, modelsDevFile,
                                   clock, TRUE, remote, persist)
        IN  /\ query' = WithCatalogLoad("update-models-dev-data", r, TRUE)
            /\ CatalogAfter(r)
            /\ UNCHANGED <<files, globalDir, backups, clock, configSchemaCache, schemaFile,
                           calls, nCalls, taken, snip, tool, loadedAt, service>>

\* Half the maximum cache age passes between two requests.
HalfDay ==
    /\ clock < MaxDays * CACHE_MAX_AGE
    /\ clock' = clock + CACHE_MAX_AGE \div 2
    /\ UNCHANGED <<files, globalDir, backups, configSchemaCache, schemaFile,
                   calls, nCalls, taken, snip, tool, loadedAt, catalogVars, service>>

\* The request layer before any request: nothing pending, nothing served.
NoResponse == [isError |-> FALSE, text |-> "none"]
IdleService ==
    [running |-> TRUE, pending |-> "none", name |-> "none", before |-> <<>>,
     response |-> NoResponse, served |-> 0, failed |-> 0]

\* No models.dev tool has been called and no request is being served.
NoCatalogUse ==
    /\ modelsDevCache = NoCatalog
    /\ modelsDevCacheTime = 0
    /\ modelsDevFile = NoCatalogFile
    /\ query = IdleQuery
    /\ service = IdleService

-----------------------------------------------------------------------------
(* Inputs and initial states.                                              *)

\* Documents found on disk at start: one the schema accepts, and one with a
\* key the schema does not declare.
BaseDoc ==
    Obj([model |-> Str("x"),
         mcp |-> Obj([s |-> Obj([type |-> Str("local"),
                                 command |-> Arr(<<Str("y"), Str("z")>>)])]),
         provider |-> Obj([a |-> Obj([k |-> Num(1)])])])
LegacyDoc == Obj([legacy |-> Num(1)])

\* Fragments given to write-config: a scalar, an array inside a service
\* entry, a nested object, and a fragment with two violations.
FragModel == Obj([model |-> Str("m")])
FragMcp == Obj([mcp |-> Obj([s |-> Obj([type |-> Str("local"),
                                        command |-> Arr(<<Str("x")>>)])])])
FragProvider == Obj([provider |-> Obj([a |-> Obj([j |-> Num(2)])])])
FragBad == Obj([bogus |-> Num(1), mcp |-> Obj([t |-> Obj([type |-> Str("x")])])])
Frags == {FragModel, FragMcp, FragProvider, FragBad}

ModeArgs == {"undefined", "replace"}
BackupArgs == {"undefined", "false"}

NoFiles == [path \in ConfigPaths |-> Absent]
InitFiles ==
    { NoFiles,
      [NoFiles EXCEPT ![PROJECT_CONFIG_PATHS[1]] = Text(TRUE, BaseDoc)],
      [NoFiles EXCEPT ![PROJECT_CONFIG_PATHS[1]] = Garbage],
      [NoFiles EXCEPT ![PROJECT_CONFIG_PATHS[2]] = Text(FALSE, LegacyDoc),
                      ![GLOBAL_CONFIG_PATHS[2]] = Text(FALSE, BaseDoc)],
      [NoFiles EXCEPT ![PROJECT_CONFIG_PATHS[1]] = Text(TRUE, EmptyObj),
                      ![PROJECT_CONFIG_PATHS[2]] = Text(FALSE, LegacyDoc),
                      ![GLOBAL_CONFIG_PATHS[1]] = Text(FALSE, LegacyDoc)] }

\* n backups left by earlier runs, the i-th oldest last, two to a millisecond,
\* beside one file that is no backup.
OldBackups(n) ==
    IF n = 0 THEN {}
    ELSE {BackupFile("opencode.jsonc", 0 - i, 0 - ((i + 1) \div 2), Garbage) : i \in 1..n}
         \cup {OtherFile(0)}
InitBackupCounts == {0, KeepBackups - 1, KeepBackups + MaxExtra}

Init ==
    /\ files \in InitFiles
    /\ globalDir = \E i \in 1..2 : Exists(files, GLOBAL_CONFIG_PATHS[i])
    /\ \E n \in InitBackupCounts :
        /\ backups = [s \in Scopes |-> OldBackups(n)]
        /\ taken = [s \in Scopes |-> [startedEmpty |-> n = 0, names |-> <<>>]]
    /\ clock = 0
    /\ configSchemaCache = NoSchema
    /\ schemaFile \in {NoSchema, ConfigSchema}
    /\ calls = [p \in Procs |-> IdleCall]
    /\ nCalls = 0
    /\ snip = [pc |-> "idle"]
    /\ tool = IdleTool
    /\ loadedAt = 0
    /\ NoCatalogUse

\* One invocation of write-config, from any of the initial states.
Next ==
    \/ \E scope \in Scopes, config \in Frags, modeArg \in ModeArgs, backupArg \in BackupArgs :
            Begin(1, MaxCalls, scope, config, modeArg, backupArg)
    \/ Locate(1)
    \/ Merge(1)
    \/ Validate(1)
    \/ Backup(1)
    \/ Cleanup(1)
    \/ Write(1)

Spec == Init /\ [][Next]_vars

\* Invocations of write-config one after the other, none overlapping another.
NextSeq ==
    \/ \E scope \in Scopes, config \in Frags, modeArg \in ModeArgs, backupArg \in BackupArgs :
            Begin(1, MaxSeqCalls, scope, config, modeArg, backupArg)
    \/ Locate(1)
    \/ Merge(1)
    \/ Validate(1)
    \/ Backup(1)
    \/ Cleanup(1)
    \/ Write(1)

SpecSeq == Init /\ [][NextSeq]_vars

\* Two merge writes to the project scope in one process, each free to run
\* while the other is suspended at an await, or after it has ended.
RaceFrags == {FragModel, FragMcp, FragProvider}
InitRace ==
    /\ files \in {NoFiles, [NoFiles EXCEPT ![PROJECT_CONFIG_PATHS[1]] = Text(TRUE, BaseDoc)]}
    /\ globalDir = FALSE
    /\ backups = [s \in Scopes |-> OldBackups(0)]
    /\ taken = [s \in Scopes |-> [startedEmpty |-> TRUE, names |-> <<>>]]
    /\ clock = 0
    /\ configSchemaCache = NoSchema
    /\ schemaFile = ConfigSchema
    /\ calls = [p \in Procs |-> IdleCall]
    /\ nCalls = 0
    /\ snip = [pc |-> "idle"]
    /\ tool = IdleTool
    /\ loadedAt = 0
    /\ NoCatalogUse

NextRace ==
    \E p \in Procs :
        \/ \E config \in RaceFrags, backupArg \in BackupArgs :
                BeginConcurrent(p, "project", config, "undefined", backupArg)
        \/ Locate(p)
        \/ Merge(p)
        \/ Validate(p)
        \/ Backup(p)
        \/ Cleanup(p)
        \/ Write(p)

SpecRace == InitRace /\ [][NextRace]_vars

\* A write, then read-config on its scope with no section, then a merge write
\* on that scope.
InitRound ==
    /\ files \in InitFiles
    /\ globalDir = \E i \in 1..2 : Exists(files, GLOBAL_CONFIG_PATHS[i])
    /\ backups = [s \in Scopes |-> OldBackups(0)]
    /\ taken = [s \in Scopes |-> [startedEmpty |-> TRUE, names |-> <<>>]]
    /\ clock = 0
    /\ configSchemaCache = NoSchema
    /\ schemaFile = ConfigSchema
    /\ calls = [p \in Procs |-> IdleCall]
    /\ nCalls = 0
    /\ snip = [pc |-> "idle"]
    /\ tool = IdleTool
    /\ loadedAt = 0
    /\ NoCatalogUse

NextRound ==
    \/ /\ nCalls = 0
       /\ \E scope \in Scopes, config \in Frags, modeArg \in ModeArgs, backupArg \in BackupArgs :
            Begin(1, MaxSeqCalls, scope, config, modeArg, backupArg)
    \/ /\ calls[1].pc = "done" /\ calls[1].outcome = "ok"
       /\ tool = IdleTool
       /\ ReadConfig(calls[1].scope, "undefined")
    \/ /\ nCalls = 1 /\ tool.op = "read-config"
       /\ \E config \in Frags, backupArg \in BackupArgs :
            Begin(1, MaxSeqCalls, tool.scope, config, "undefined", backupArg)
    \/ Locate(1)
    \/ Merge(1)
    \/ Validate(1)
    \/ Backup(1)
    \/ Cleanup(1)
    \/ Write(1)

SpecRound == InitRound /\ [][NextRound]_vars

-----------------------------------------------------------------------------
(* generateConfigSnippet, lines 198-272: the walk of a dotted path through *)
(* the schema, one action per loop iteration.                              *)

TrueSchema == [id |-> "true"]

\* The loop body of lines 215-245 without the special case of lines 221-225.
DescendNoSpecialCase(current, part, isLast) ==
    IF SchemaTruthy(Prop(current, part))
    THEN [kind |-> "properties", node |-> Prop(current, part)]
    ELSE IF SchemaTruthy(AdditionalProperties(current)) /\ ~isLast
    THEN [kind |-> "additionalProperties", node |-> AdditionalProperties(current)]
    ELSE IF SchemaTruthy(Items(current))
    THEN [kind |-> "items", node |-> Items(current)]
    ELSE [kind |-> "fail", node |-> NoNode]

\* The loop body of lines 215-245 without the i < length - 1 of line 228.
DescendEverySegment(current, part, isLast) ==
    IF SchemaTruthy(Prop(current, part))
    THEN [kind |-> "properties", node |-> Prop(current, part)]
    ELSE IF isLast /\ SchemaTruthy(Prop(AdditionalProperties(current), part))
    THEN [kind |-> "apProperty", node |-> Prop(AdditionalProperties(current), part)]
    ELSE IF SchemaTruthy(AdditionalProperties(current))
    THEN [kind |-> "additionalProperties", node |-> AdditionalProperties(current)]
    ELSE IF SchemaTruthy(Items(current))
    THEN [kind |-> "items", node |-> Items(current)]
    ELSE [kind |-> "fail", node |-> NoNode]

\* The loop body, lines 215-245: where the walk goes from current for part.
Descend(current, part, isLast) ==
    IF SchemaTruthy(Prop(current, part))
    THEN [kind |-> "properties", node |-> Prop(current, part)]
    ELSE IF isLast /\ SchemaTruthy(Prop(AdditionalProperties(current), part))
    THEN [kind |-> "apProperty", node |-> Prop(AdditionalProperties(current), part)]
    ELSE IF SchemaTruthy(AdditionalProperties(current)) /\ ~isLast
    THEN [kind |-> "additionalProperties", node |-> AdditionalProperties(current)]
    ELSE IF SchemaTruthy(Items(current))
    THEN [kind |-> "items", node |-> Items(current)]
    ELSE [kind |-> "fail", node |-> NoNode]

\* currentPath as its pieces: a separator ("." or none), the segment text and
\* how it is written: plain, ".[part]" (dyn) or "[part]" (item).
Piece(sep, text, style) == [sep |-> sep, text |-> text, style |-> style]

\* Line 213: currentPath ? `${currentPath}.${part}` : part
Extend(currentPath, part) ==
    Append(currentPath, Piece(IF currentPath = <<>> THEN "" ELSE ".", part, "plain"))

\* Lines 230 and 237: String.replace rewrites the first ".part" of currentPath.
Rewrite(currentPath, part, style) ==
    LET hits == {j \in 1..Len(currentPath) :
                    /\ currentPath[j].sep = "."
                    /\ currentPath[j].style = "plain"
                    /\ currentPath[j].text = part}
    IN  IF hits = {} THEN currentPath
        ELSE LET j == CHOOSE h \in hits : \A g \in hits : h <= g
             IN  [currentPath EXCEPT ![j] =
                    Piece(IF style = "dyn" THEN "." ELSE "", part, style)]

IdleSnip == [pc |-> "idle"]

\* Lines 201-209: the schema is loaded, the path split.
SnipBegin(parts) ==
    \E remote \in FetchOutcomes(FALSE) :
    \E persist \in WriteOutcomes(FALSE, remote) :
        LET r == loadConfigSchema(configSchemaCache, schemaFile, FALSE, remote, persist) IN
        /\ snip.pc = "idle"
        /\ configSchemaCache' = r.cache
        /\ schemaFile' = r.file
        /\ snip' = [pc |-> IF r.ok THEN "walk" ELSE "done",
                    outcome |-> IF r.ok THEN "none" ELSE r.error,
                    parts |-> parts, i |-> 0, schema |-> r.schema,
                    current |-> r.schema, currentPath |-> <<>>,
                    from |-> NoNode, kind |-> "none", error |-> <<>>]
        /\ loadedAt' = LoadedAt(r)
        /\ UNCHANGED <<files, globalDir, backups, clock, calls, nCalls, taken, tool, catalogVars, service>>

\* The keys an error lists when only the fixed properties are looked at.
AvailableFixedOnly(current) == DOMAIN Props(current)

\* Lines 242-244: the keys of properties and of additionalProperties.properties.
Available(current) ==
    DOMAIN Props(current) \cup DOMAIN Props(AdditionalProperties(current))

\* One iteration of the loop of lines 211-246; after the last, the result.
SnipStep ==
    LET part == snip.parts[snip.i + 1]
        isLast == snip.i + 1 = Len(snip.parts)
        d == Descend(snip.current, part, isLast)
        path == Extend(snip.currentPath, part)
    IN  /\ snip.pc = "walk"
        /\ snip' =
            IF d.kind = "fail"
            THEN [snip EXCEPT !.pc = "done", !.outcome = "SchemaPathError",
                              !.i = @ + 1, !.from = snip.current, !.kind = d.kind,
                              !.currentPath = path,
                              !.error = [part |-> part, path |-> path,
                                         available |-> Available(snip.current)]]
            ELSE [snip EXCEPT !.pc = IF isLast THEN "done" ELSE "walk",
                              !.outcome = IF isLast THEN "ok" ELSE "none",
                              !.i = @ + 1, !.from = snip.current, !.kind = d.kind,
                              !.current = d.node,
                              !.currentPath =
                                  CASE d.kind = "additionalProperties" -> Rewrite(path, part, "dyn")
                                    [] d.kind = "items" -> Rewrite(path, part, "item")
                                    [] OTHER -> path]
        /\ UNCHANGED <<files, globalDir, backups, clock, configSchemaCache, schemaFile,
                       calls, nCalls, taken, tool, loadedAt, catalogVars, service>>

-----------------------------------------------------------------------------
(* The request layer: the CallToolRequest handler of index.ts 46-78 around *)
(* executeTool, tool registry 104-112.  A request is received, its handler *)
(* runs, and the result or the exception becomes the response.  before     *)
(* keeps the config files and the caches as the request found them.        *)

\* The keys of TOOL_HANDLERS the model has a handler for.
ConfigTools == {"read-config", "validate-config", "get-schema", "update-config-schema",
                "get-system-info"}
CatalogTools == {"list-providers", "get-model-details", "update-models-dev-data"}
Registered == ConfigTools \cup CatalogTools \cup {"write-config", "generate-config-snippet"}

\* What a handler returns as text rather than throws.
ResultTexts == {"ok", "notFound", "sectionNotFound", "valid", "invalid"}

\* The request handler is entered: no handler has run for this request yet.
Receive(name) ==
    /\ service.running /\ service.pending = "none"
    /\ service' = [service EXCEPT !.pending = name, !.name = name,
                                  !.response = NoResponse,
                                  !.before = [files |-> files,
                                              configSchemaCache |-> configSchemaCache,
                                              modelsDevCache |-> modelsDevCache,
                                              modelsDevCacheTime |-> modelsDevCacheTime]]
    /\ tool' = IdleTool
    /\ query' = IdleQuery
    /\ snip' = IdleSnip
    /\ calls' = [p \in Procs |-> IdleCall]
    /\ UNCHANGED <<files, globalDir, backups, clock, configSchemaCache, schemaFile,
                   nCalls, taken, loadedAt, modelsDevCache, modelsDevCacheTime,
                   modelsDevFile>>

Pending(name) == service.pending = name

\* The get-system-info handler, tool registry 41-55 over getSystemInfo, data
\* loaders 211-284: it stats the data files and looks for the config files.
GetSystemInfo ==
    /\ tool' = [IdleTool EXCEPT !.op = "get-system-info", !.outcome = "ok",
                                !.configPath = findConfigFile(files, "project"),
                                !.files = files]
    /\ UNCHANGED <<files, globalDir, backups, clock, configSchemaCache, schemaFile,
                   calls, nCalls, taken, snip, loadedAt, catalogVars, service>>

\* executeTool, lines 104-112: whether the handler of the pending request has
\* ended, and with what; a name that has no handler throws at once.
HandlerDone ==
    CASE service.pending \in ConfigTools -> tool.op # "none"
      [] service.pending \in CatalogTools -> query.op # "none"
      [] service.pending = "write-config" -> calls[1].pc = "done"
      [] service.pending = "generate-config-snippet" -> snip.pc = "done"
      [] OTHER -> service.pending # "none"
HandlerOutcome ==
    CASE service.pending \in ConfigTools -> tool.outcome
      [] service.pending \in CatalogTools -> query.outcome
      [] service.pending = "write-config" -> calls[1].outcome
      [] service.pending = "generate-config-snippet" -> snip.outcome
      [] OTHER -> "ToolNotFoundError"

\* A request handler without its try/catch: an exception ends the process.
CatchNothing(svc, outcome) ==
    [svc EXCEPT !.pending = "none", !.served = @ + 1,
                !.running = outcome \in ResultTexts,
                !.failed = IF outcome \in ResultTexts THEN @ ELSE @ + 1,
                !.response = [isError |-> FALSE, text |-> outcome]]

\* index.ts 49-77: a result becomes a text response, an exception a response
\* marked isError; the handler returns either way.
Catch(svc, outcome) ==
    [svc EXCEPT !.pending = "none", !.served = @ + 1,
                !.failed = IF outcome \in ResultTexts THEN @ ELSE @ + 1,
                !.response = [isError |-> outcome \notin ResultTexts, text |-> outcome]]

Respond ==
    /\ service.pending # "none"
    /\ HandlerDone
    /\ service' = Catch(service, HandlerOutcome)
    /\ UNCHANGED <<files, globalDir, backups, clock, configSchemaCache, schemaFile,
                   calls, nCalls, taken, snip, tool, loadedAt, catalogVars>>

-----------------------------------------------------------------------------
(* The schemas and paths of the walk.                                      *)

\* The schemas walked: every shape of a node mid that holds or lacks
\* properties.models, additionalProperties (absent, false, true, a plain
\* schema, a schema with its own properties.models, a schema with its own
\* additionalProperties) and items; taken as the
\* schema itself and as the provider property, the additionalProperties and the
\* items of a root.
MidNodes ==
    {Node("mid", props, ap, items) :
        props \in {<<>>, [models |-> Leaf("mid.properties.models")]},
        ap \in {NoNode, FalseSchema, TrueSchema, Leaf("mid.additionalProperties"),
                Node("mid.additionalProperties",
                     [models |-> Leaf("mid.additionalProperties.properties.models")],
                     NoNode, NoNode),
                Node("mid.additionalProperties", <<>>,
                     Node("mid.additionalProperties.additionalProperties",
                          [models |-> Leaf("deep.models")], NoNode, NoNode),
                     NoNode)},
        items \in {NoNode, Leaf("mid.items")}}
WalkSchemas ==
    MidNodes
    \cup {Node("root", [provider |-> m], NoNode, NoNode) : m \in MidNodes}
    \cup {Node("root", <<>>, m, NoNode) : m \in MidNodes}
    \cup {Node("root", <<>>, NoNode, m) : m \in MidNodes}

\* {properties: {provider: {additionalProperties: {properties: {models: {type: "object"}}}}}}
ExampleSchema ==
    Node("root",
         [provider |-> Node("mid", <<>>,
                            Node("mid.additionalProperties",
                                 [models |-> Leaf("mid.additionalProperties.properties.models")],
                                 NoNode, NoNode),
                            NoNode)],
         NoNode, NoNode)

PartNames == {"provider", "models", "other"}
Paths == UNION {[1..n -> PartNames] : n \in 1..MaxPathLen}

InitWalk ==
    /\ files = NoFiles
    /\ globalDir = FALSE
    /\ backups = [s \in Scopes |-> {}]
    /\ clock = 0
    /\ schemaFile \in WalkSchemas
    /\ configSchemaCache \in {NoSchema, schemaFile}
    /\ calls = [p \in Procs |-> IdleCall]
    /\ nCalls = 0
    /\ taken = [s \in Scopes |-> [startedEmpty |-> TRUE, names |-> <<>>]]
    /\ snip = IdleSnip
    /\ tool = IdleTool
    /\ loadedAt = 0
    /\ NoCatalogUse

NextWalk ==
    \/ \E parts \in Paths : SnipBegin(parts)
    \/ SnipStep

SpecWalk == InitWalk /\ [][NextWalk]_vars

\* The same path given to generate-config-snippet and then to get-schema,
\* over the same schemas.
NextResolve ==
    \/ \E parts \in Paths : SnipBegin(parts)
    \/ SnipStep
    \/ snip.pc = "done" /\ tool = IdleTool /\ GetSchema(snip.parts)

SpecResolve == InitWalk /\ [][NextResolve]_vars

-----------------------------------------------------------------------------
(* The validator applied to a family of documents.                         *)

\* An earlier version of the schema, without the theme property.
OlderSchema ==
    Node("root",
         [model |-> Leaf("model"),
          provider |-> Node("provider", <<>>, Leaf("providerEntry"), NoNode),
          mcp |-> Node("mcp", <<>>, Leaf("mcpEntry"), NoNode)],
         FalseSchema, NoNode)

\* Top-level keys no schema declares.
UnknownParts == {<<>>, [bogus |-> Num(1)], [bogus |-> Num(1), legacy |-> Str("y")]}

\* Values of a provider entry: objects, an array, strings, numbers, booleans, null.
ProviderValues ==
    {Obj([k |-> Num(1)]), EmptyObj, Arr(<<>>), Str("s"), Str(""), Num(1), Num(0),
     Bool(TRUE), Bool(FALSE), Null}
ProviderParts ==
    {<<>>, [provider |-> EmptyObj], [provider |-> Null], [provider |-> Str("s")]}
    \cup {[provider |-> Obj([a |-> v])] : v \in ProviderValues}
    \cup {[provider |-> Obj([a |-> v, b |-> w])] :
                v \in {Str("s"), Null}, w \in {EmptyObj, Num(1)}}

\* Values of an mcp entry: with a type that is local, remote, something else,
\* empty, null or an array; without a type; and values that are no objects.
McpValues ==
    {Obj([type |-> Str("local")]), Obj([type |-> Str("remote"), url |-> Str("u")]),
     Obj([type |-> Str("x")]), Obj([type |-> Str("")]), Obj([type |-> Null]),
     Obj([type |-> Arr(<<Str("local")>>)]), EmptyObj, Arr(<<>>),
     Null, Str("s"), Num(1), Bool(FALSE)}
McpParts ==
    {<<>>, [mcp |-> EmptyObj]}
    \cup {[mcp |-> Obj([s |-> v])] : v \in McpValues}
    \cup {[mcp |-> Obj([s |-> v, t |-> w])] :
                v \in {Obj([type |-> Str("local")]), EmptyObj, Null},
                w \in {Obj([type |-> Str("remote")]), Obj([type |-> Str("x")]), Num(1)}}

ValidateDocs ==
    {Obj([model |-> Str("m")] @@ u @@ pr @@ m) :
        u \in UnknownParts, pr \in ProviderParts, m \in McpParts}

InitValidate ==
    /\ files = NoFiles
    /\ globalDir = FALSE
    /\ backups = [s \in Scopes |-> {}]
    /\ clock = 0
    /\ schemaFile \in {ConfigSchema, OlderSchema}
    /\ configSchemaCache = NoSchema
    /\ calls = [p \in Procs |-> IdleCall]
    /\ nCalls = 0
    /\ taken = [s \in Scopes |-> [startedEmpty |-> TRUE, names |-> <<>>]]
    /\ snip = IdleSnip
    /\ tool = IdleTool
    /\ loadedAt = 0
    /\ NoCatalogUse

\* One validate-config request with config_data.
NextValidate ==
    /\ tool = IdleTool
    /\ \E configData \in ValidateDocs : ValidateConfig("undefined", configData)

SpecValidate == InitValidate /\ [][NextValidate]_vars

-----------------------------------------------------------------------------
(* The tools of the registry, one request at a time: a series of read-side *)
(* requests with time passing between them, or one write-config, or one    *)
(* generate-config-snippet, from every combination of config files present *)
(* and every state of the persisted schema.                                *)

FileAt(path) ==
    CASE path = PROJECT_CONFIG_PATHS[1] -> Text(TRUE, BaseDoc)
      [] path = PROJECT_CONFIG_PATHS[2] -> Text(FALSE, LegacyDoc)
      [] path = GLOBAL_CONFIG_PATHS[1] -> Text(TRUE, EmptyObj)
      [] OTHER -> Garbage
ToolsFiles == {[path \in ConfigPaths |-> IF path \in S THEN FileAt(path) ELSE Absent] :
                    S \in SUBSET ConfigPaths}

ScopeArgs == {"undefined", "project", "global", "auto"}
Sections == {"undefined", "model", "agent"}
ToolsDocs == {Undefined, FragModel, FragBad}
SchemaPaths == {<<>>, <<"full">>, <<"provider">>, <<"provider", "x">>, <<"bogus">>}

InitTools ==
    /\ files \in ToolsFiles
    /\ globalDir = \E i \in 1..2 : Exists(files, GLOBAL_CONFIG_PATHS[i])
    /\ backups = [s \in Scopes |-> {}]
    /\ clock = 0
    /\ schemaFile \in {NoSchema, CorruptFile, ConfigSchema, OlderSchema}
    /\ configSchemaCache = NoSchema
    /\ calls = [p \in Procs |-> IdleCall]
    /\ nCalls = 0
    /\ taken = [s \in Scopes |-> [startedEmpty |-> TRUE, names |-> <<>>]]
    /\ snip = IdleSnip
    /\ tool = IdleTool
    /\ loadedAt = 0
    /\ NoCatalogUse

\* No write-config and no generate-config-snippet has been requested.
ReadSide == calls[1].pc = "idle" /\ snip.pc = "idle"
\* No request has been served.
FirstRequest == ReadSide /\ tool = IdleTool /\ clock = 0

NextTools ==
    \/ ReadSide /\ \E scopeArg \in ScopeArgs, section \in Sections : ReadConfig(scopeArg, section)
    \/ ReadSide /\ \E scopeArg \in ScopeArgs, configData \in ToolsDocs :
                        ValidateConfig(scopeArg, configData)
    \/ ReadSide /\ \E parts \in SchemaPaths : GetSchema(parts)
    \/ ReadSide /\ UpdateConfigSchema
    \/ ReadSide /\ Tick
    \/ FirstRequest /\ \E scope \in Scopes, config \in Frags, modeArg \in ModeArgs,
                           backupArg \in BackupArgs :
                            Begin(1, MaxCalls, scope, config, modeArg, backupArg)
    \/ Locate(1)
    \/ Merge(1)
    \/ Validate(1)
    \/ Backup(1)
    \/ Cleanup(1)
    \/ Write(1)
    \/ FirstRequest /\ \E parts \in {<<"provider", "x">>, <<"bogus">>} : SnipBegin(parts)
    \/ SnipStep

SpecTools == InitTools /\ [][NextTools]_vars

-----------------------------------------------------------------------------
(* The two caches: requests to the models.dev tools, refreshes of both     *)
(* caches and reads of the schema, half a maximum cache age apart or less, *)
(* in a process that starts with or without the files an earlier process   *)
(* left in the data directory.                                             *)

\* The catalog an earlier process fetched and persisted at time at.
Persisted(at) == CatalogFile(at, Catalog(at, ServedProviders))

\* data/models-dev-api.json at start: absent, written half a maximum age or a
\* whole one before the process started, or cut short by a failed write.
InitCatalogFiles ==
    {NoCatalogFile, Persisted(0 - CACHE_MAX_AGE \div 2), Persisted(0 - CACHE_MAX_AGE),
     CorruptCatalogFile(0 - CACHE_MAX_AGE \div 2)}

SearchArgs ==
    [provider_id : {"undefined", "small", "none"}, reasoning : {"undefined", "true"},
     limit : {Undefined, Num(0), Num(1), Num(2), Num(60)}]

InitCatalog ==
    /\ files = NoFiles
    /\ globalDir = FALSE
    /\ backups = [s \in Scopes |-> {}]
    /\ clock = 0
    /\ schemaFile \in {NoSchema, OlderSchema}
    /\ configSchemaCache = NoSchema
    /\ calls = [p \in Procs |-> IdleCall]
    /\ nCalls = 0
    /\ taken = [s \in Scopes |-> [startedEmpty |-> TRUE, names |-> <<>>]]
    /\ snip = IdleSnip
    /\ tool = IdleTool
    /\ loadedAt = 0
    /\ modelsDevCache = NoCatalog
    /\ modelsDevCacheTime = 0
    /\ modelsDevFile \in InitCatalogFiles
    /\ query = IdleQuery
    /\ service = IdleService

\* The requests of one behaviour go to the catalog or to the schema.
CatalogOnly == tool = IdleTool
SchemaOnly == query = IdleQuery

NextCatalog ==
    \/ CatalogOnly /\ ListProviders
    \/ CatalogOnly /\ UpdateModelsDevData
    \/ SchemaOnly /\ GetSchema(<<>>)
    \/ SchemaOnly /\ UpdateConfigSchema
    \/ HalfDay

SpecCatalog == InitCatalog /\ [][NextCatalog]_vars

\* One search-models or get-model-details request, at the start of the
\* process or later.
NextSearch ==
    \/ query = IdleQuery /\ \E args \in SearchArgs : SearchModels(args)
    \/ query = IdleQuery /\ \E providerId \in {"small", "none"}, modelId \in {1, 3} :
                                GetModelDetails(providerId, modelId)
    \/ query = IdleQuery /\ HalfDay

SpecSearch == InitCatalog /\ [][NextSearch]_vars

-----------------------------------------------------------------------------
(* The server: requests served one after the other through the request     *)
(* layer, to registered tools and to a name that has no handler.           *)

ToolNames == Registered \cup {"no-such-tool"}

InitServer ==
    /\ files \in {NoFiles, [NoFiles EXCEPT ![PROJECT_CONFIG_PATHS[1]] = Text(TRUE, BaseDoc)]}
    /\ globalDir = FALSE
    /\ backups = [s \in Scopes |-> {}]
    /\ clock = 0
    /\ schemaFile \in {NoSchema, ConfigSchema}
    /\ configSchemaCache = NoSchema
    /\ calls = [p \in Procs |-> IdleCall]
    /\ nCalls = 0
    /\ taken = [s \in Scopes |-> [startedEmpty |-> TRUE, names |-> <<>>]]
    /\ snip = IdleSnip
    /\ tool = IdleTool
    /\ loadedAt = 0
    /\ modelsDevCache = NoCatalog
    /\ modelsDevCacheTime = 0
    /\ modelsDevFile \in {NoCatalogFile, Persisted(0 - CACHE_MAX_AGE \div 2)}
    /\ query = IdleQuery
    /\ service = IdleService

NextServer ==
    \/ service.served < MaxRequests /\ \E name \in ToolNames : Receive(name)
    \/ Pending("read-config") /\ tool = IdleTool
            /\ \E scopeArg \in {"undefined", "global"}, section \in {"undefined", "agent"} :
                    ReadConfig(scopeArg, section)
    \/ Pending("validate-config") /\ tool = IdleTool
            /\ \E configData \in {Undefined, FragBad} : ValidateConfig("undefined", configData)
    \/ Pending("get-schema") /\ tool = IdleTool
            /\ \E parts \in {<<>>, <<"bogus">>} : GetSchema(parts)
    \/ Pending("update-config-schema") /\ tool = IdleTool /\ UpdateConfigSchema
    \/ Pending("get-system-info") /\ tool = IdleTool /\ GetSystemInfo
    \/ Pending("list-providers") /\ query = IdleQuery /\ ListProviders
    \/ Pending("get-model-details") /\ query = IdleQuery
            /\ \E providerId \in {"small", "none"} : GetModelDetails(providerId, 1)
    \/ Pending("update-models-dev-data") /\ query = IdleQuery /\ UpdateModelsDevData
    \/ Pending("write-config") /\ calls[1].pc = "idle"
            /\ \E scope \in Scopes, config \in {FragModel, FragBad}, backupArg \in BackupArgs :
                    Begin(1, MaxRequests, scope, config, "undefined", backupArg)
    \/ Locate(1)
    \/ Merge(1)
    \/ Validate(1)
    \/ Backup(1)
    \/ Cleanup(1)
    \/ Write(1)
    \/ WriteFails(1)
    \/ Pending("generate-config-snippet")
            /\ \E parts \in {<<"provider", "x">>, <<"bogus">>} : SnipBegin(parts)
    \/ SnipStep
    \/ Respond

SpecServer == InitServer /\ [][NextServer]_vars

-----------------------------------------------------------------------------
(* Properties of writeConfig.                                              *)

Finished(c) == c.pc = "done"
Succeeded(c) == c.pc = "done" /\ c.outcome = "ok"
PassedValidation(c) == c.pc \in {"backup", "cleanup", "write"} \/ Succeeded(c)

\* C1: a document that fails validation is never taken past validation; the
\* call that meets one ends with a validation failure carrying every error of
\* the document, the config files are as they were when the call began and the
\* backup directories hold the same files.
C1_ValidationFailureWritesNothing ==
    \A p \in Procs :
        LET c == calls[p] IN
        /\ PassedValidation(c) => validateConfigData(c.finalConfig, configSchemaCache) = {}
        /\ (Finished(c) /\ c.outcome = "ConfigValidationError") =>
                /\ c.errors # {}
                /\ c.errors = validateConfigData(c.finalConfig, configSchemaCache)
                /\ files = c.pre.files
                /\ backups = c.pre.backups

\* A merge onto an existing file, with a backup asked for, failed validation
\* with two or more errors.
C1_Witness ==
    \E p \in Procs :
        LET c == calls[p] IN
        /\ Finished(c) /\ c.outcome = "ConfigValidationError"
        /\ Cardinality(c.errors) >= 2
        /\ c.mode = "merge" /\ ~c.isNewFile /\ c.createBackup
        /\ c.finalConfig # c.config

\* The deep merge the specification describes: objects merge key by key,
\* anything else in the fragment replaces what the base held.
IsPlainObject(v) == v.t = "obj"
RECURSIVE ReferenceMerge(_, _)
ReferenceMerge(base, frag) ==
    Obj([k \in DOMAIN base.f \cup DOMAIN frag.f |->
            IF k \notin DOMAIN frag.f THEN base.f[k]
            ELSE IF k \in DOMAIN base.f /\ IsPlainObject(base.f[k]) /\ IsPlainObject(frag.f[k])
            THEN ReferenceMerge(base.f[k], frag.f[k])
            ELSE frag.f[k]])

\* C2: the document a successful merge-mode write persists over an existing
\* document B, given the fragment F, is the reference deep merge of B and F.
C2_MergeIsReferenceMerge ==
    \A p \in Procs :
        LET c == calls[p] IN
        (Succeeded(c) /\ c.mode = "merge" /\ ~c.isNewFile /\ IsPlainObject(c.existing)) =>
            parseJSONC(files[c.configPath]) = ReferenceMerge(c.existing, c.config)

\* C3: a successful merge write that follows a successful merge write of the
\* same fragment to the same scope leaves the file as that first write left it.
C3_MergeIdempotent ==
    \A p \in Procs :
        LET c == calls[p] IN
        (/\ Succeeded(c) /\ c.mode = "merge"
         /\ c.prev.outcome = "ok" /\ c.prev.mode = "merge"
         /\ c.prev.scope = c.scope /\ c.prev.config = c.config) =>
            parseJSONC(files[c.configPath]) = parseJSONC(c.pre.files[c.configPath])

\* C4: a successful replace write leaves on disk exactly the fragment it was
\* given, whatever the file held, and has not read the file.
C4_ReplaceIsExact ==
    \A p \in Procs :
        LET c == calls[p] IN
        (c.mode = "replace" /\ c.pc # "idle") =>
            /\ c.existing = Undefined
            /\ c.pc \notin {"locate", "merge"} => c.finalConfig = c.config
            /\ Succeeded(c) =>
                /\ parseJSONC(files[c.configPath]) = c.config
                /\ files[c.configPath] = Serialize(c.configPath, c.config)

\* A replace write succeeded over a file that held keys the fragment lacks.
C4_Witness ==
    \E p \in Procs :
        LET c == calls[p] IN
        /\ Succeeded(c) /\ c.mode = "replace" /\ ~c.isNewFile
        /\ c.pre.files[c.configPath] = Text(TRUE, BaseDoc)
        /\ c.config = FragModel
        /\ parseJSONC(files[c.configPath]) = FragModel

Min(a, b) == IF a <= b THEN a ELSE b
LastN(seq, n) == {seq[i] : i \in (Len(seq) - n + 1)..Len(seq)}

\* C5: from an empty backup directory, after K successful overwriting writes
\* with create_backup, exactly min(K, 5) backups exist: those of the most
\* recent min(K, 5) of the writes.
C5_RetentionAfterKWrites ==
    \A s \in Scopes :
        ((\A p \in Procs : ~InProgress(calls[p])) /\ taken[s].startedEmpty) =>
            LET K == Len(taken[s].names)
                dir == BackupFiles(backups[s])
            IN  /\ Cardinality(dir) = Min(K, DEFAULT_BACKUP_COUNT)
                /\ {BackupName(f) : f \in dir} = LastN(taken[s].names, Min(K, DEFAULT_BACKUP_COUNT))

PassDone(c) == c.cleaned /\ c.pc \in {"write", "done"}

\* C6 as claimed: after every rotation pass, failed deletions or not, at most
\* five backups survive.
C6_AtMostFiveAfterEveryPass ==
    \A p \in Procs :
        LET c == calls[p] IN
        PassDone(c) => Cardinality(BackupFiles(backups[c.scope])) <= DEFAULT_BACKUP_COUNT

\* C6 amended: after a rotation pass that met no error, min(n, 5) of the n
\* backups survive, and none that was deleted is newer than one that was kept.
C6_AtMostFiveAfterCleanPass ==
    \A p \in Procs :
        LET c == calls[p]
            before == BackupFiles(c.rotated)
            after == BackupFiles(backups[c.scope])
        IN  (PassDone(c) /\ c.cleanupFault = "none") =>
                /\ after \subseteq before
                /\ Cardinality(after) = Min(Cardinality(before), DEFAULT_BACKUP_COUNT)
                /\ \A d \in before \ after, k \in after : d.mtime <= k.mtime
                /\ backups[c.scope] \ after = c.rotated \ before

\* A pass without error over seven backups left five.
C6_Witness ==
    \E p \in Procs :
        LET c == calls[p] IN
        /\ PassDone(c) /\ c.cleanupFault = "none"
        /\ Cardinality(BackupFiles(c.rotated)) = DEFAULT_BACKUP_COUNT + 2
        /\ Cardinality(BackupFiles(backups[c.scope])) = DEFAULT_BACKUP_COUNT

\* C7: a call writes a backup only if create_backup holds and the file
\* existed; a call that passes validation and completes writes one exactly
\* then, and reports a backup exactly when it wrote one.
C7_BackupIffRequestedAndExisting ==
    \A p \in Procs :
        LET c == calls[p] IN
        /\ c.backupWritten => (c.createBackup /\ ~c.isNewFile)
        /\ c.backupWritten =>
                \E f \in c.rotated : f.isBackup /\ BackupName(f) = c.backupName
                                     /\ f.content = c.pre.files[c.configPath]
        /\ ~c.backupWritten => (Finished(c) => backups = c.pre.backups)
        /\ Succeeded(c) =>
                /\ c.backupWritten = (c.createBackup /\ ~c.isNewFile)
                /\ c.report.backupCreated = c.backupWritten
                /\ c.isNewFile = ~Exists(c.pre.files, c.configPath)

\* A write with create_backup on created its file: it took no backup and
\* reported none.
C7_Witness ==
    \E p \in Procs :
        LET c == calls[p] IN
        /\ Succeeded(c) /\ c.createBackup /\ c.isNewFile
        /\ ~c.report.backupCreated /\ ~c.backupWritten
        /\ backups = c.pre.backups
        /\ Exists(files, c.configPath)

\* C8: once a rotation pass has met an error, the call is not ended by it: it
\* goes on to the write, and when it is done it has succeeded and the file
\* holds the validated document.
C8_CleanupErrorsSwallowed ==
    \A p \in Procs :
        LET c == calls[p] IN
        (c.cleaned /\ c.cleanupFault # "none") =>
            /\ c.pc \in {"write", "done"}
            /\ Finished(c) =>
                /\ c.outcome = "ok"
                /\ files[c.configPath] = Serialize(c.configPath, c.finalConfig)
                /\ validateConfigData(c.finalConfig, configSchemaCache) = {}

\* Writes completed after a failed readdir, a failed stat and a failed unlink
\* that left a file too many.
C8_Witness ==
    \E p \in Procs :
        LET c == calls[p] IN
        /\ Succeeded(c) /\ c.cleanupFault = "unlink"
        /\ Cardinality(BackupFiles(backups[c.scope])) > DEFAULT_BACKUP_COUNT
        /\ files[c.configPath] # c.pre.files[c.configPath]

-----------------------------------------------------------------------------
(* Properties of the schema path walk.                                     *)

Walked == snip.pc \in {"walk", "done"} /\ snip.i > 0
WasLast == snip.i = Len(snip.parts)
LastPart == snip.parts[snip.i]

\* The three-kind precedence: properties[part], else additionalProperties,
\* else items.
ThreeKind(node, part) ==
    IF SchemaTruthy(Prop(node, part)) THEN Prop(node, part)
    ELSE IF SchemaTruthy(AdditionalProperties(node)) THEN AdditionalProperties(node)
    ELSE IF SchemaTruthy(Items(node)) THEN Items(node)
    ELSE NoNode

\* C9 as claimed: at every segment, the last included, the walk goes where the
\* three-kind precedence leads, and fails only when it leads nowhere.
C9_ThreeKindAtEverySegment ==
    Walked =>
        IF ThreeKind(snip.from, LastPart) = NoNode
        THEN snip.outcome = "SchemaPathError"
        ELSE snip.outcome # "SchemaPathError" /\ snip.current = ThreeKind(snip.from, LastPart)

\* C9 amended: at every segment but the last the walk follows the three-kind
\* precedence; at the last segment it goes to properties[part], else to
\* additionalProperties.properties[part], else to items, never to
\* additionalProperties itself, and fails when none of these three exists.
C9_ThreeKindBeforeLastSegment ==
    Walked =>
        LET inProps == Prop(snip.from, LastPart)
            inAdditional == Prop(AdditionalProperties(snip.from), LastPart)
            expected ==
                IF ~WasLast THEN ThreeKind(snip.from, LastPart)
                ELSE IF SchemaTruthy(inProps) THEN inProps
                ELSE IF SchemaTruthy(inAdditional) THEN inAdditional
                ELSE IF SchemaTruthy(Items(snip.from)) THEN Items(snip.from)
                ELSE NoNode
        IN  IF expected = NoNode
            THEN snip.outcome = "SchemaPathError" /\ snip.pc = "done"
            ELSE /\ snip.outcome # "SchemaPathError"
                 /\ snip.current = expected
                 /\ snip.pc = IF WasLast THEN "done" ELSE "walk"

\* The walk went through the additionalProperties of the root and then
\* failed at the last segment, at a node that has additionalProperties.
C9_Witness ==
    /\ Walked /\ WasLast /\ snip.i = 2
    /\ snip.outcome = "SchemaPathError"
    /\ snip.from = AdditionalProperties(snip.schema)
    /\ SchemaTruthy(AdditionalProperties(snip.from))
    /\ ThreeKind(snip.from, LastPart) = AdditionalProperties(snip.from)

\* C10: at the last segment of a path, when the node has no properties[part]
\* and its additionalProperties has properties[part], the walk ends there; so
\* "provider.models" on the example schema resolves to the models fragment.
C10_LastSegmentInAdditionalProperties ==
    /\ (/\ Walked /\ WasLast
        /\ ~SchemaTruthy(Prop(snip.from, LastPart))
        /\ SchemaTruthy(Prop(AdditionalProperties(snip.from), LastPart))) =>
            /\ snip.pc = "done" /\ snip.outcome = "ok"
            /\ snip.current = Prop(AdditionalProperties(snip.from), LastPart)
    /\ (/\ snip.pc = "done"
        /\ snip.schema = ExampleSchema
        /\ snip.parts = <<"provider", "models">>) =>
            /\ snip.outcome = "ok"
            /\ snip.current = Leaf("mid.additionalProperties.properties.models")

\* "provider.models" was resolved on the example schema.
C10_Witness ==
    /\ snip.pc = "done" /\ snip.outcome = "ok"
    /\ snip.schema = ExampleSchema
    /\ snip.parts = <<"provider", "models">>
    /\ snip.kind = "apProperty"

\* Where the walk of parts from node stalls: the segment number and the node,
\* or segment 0 when the path resolves.
RECURSIVE Stall(_, _, _)
Stall(node, parts, i) ==
    LET d == Descend(node, parts[i], i = Len(parts)) IN
    IF d.kind = "fail" THEN [k |-> i, node |-> node]
    ELSE IF i = Len(parts) THEN [k |-> 0, node |-> d.node]
    ELSE Stall(d.node, parts, i + 1)

Failed == snip.pc = "done" /\ snip.outcome = "SchemaPathError"
Plain(sep, text) == Piece(sep, text, "plain")
\* The segments 1..k joined by ".".
Dotted(parts, k) == [j \in 1..k |-> Plain(IF j = 1 THEN "" ELSE ".", parts[j])]

-----------------------------------------------------------------------------
(* Properties of the validator.                                            *)

\* validate-config has validated a document.
Validated == tool.op = "validate-config" /\ tool.outcome \in {"valid", "invalid"}
ErrorsOfRules(rules) == {e \in tool.errors : e.rule \in rules}
McpRules == {"mcp must be an object", "mcp type is required", "mcp type must be local or remote"}

\* The rules as the specification gives them: declared keys only, provider
\* values that are objects, mcp entries that are objects with a type of local
\* or remote.
SatisfiesRules(D, schema) ==
    /\ DOMAIN D.f \subseteq DOMAIN Props(schema)
    /\ "provider" \in DOMAIN D.f =>
            /\ D.f.provider.t = "obj"
            /\ \A id \in DOMAIN D.f.provider.f : D.f.provider.f[id].t = "obj"
    /\ "mcp" \in DOMAIN D.f =>
            /\ D.f.mcp.t = "obj"
            /\ \A name \in DOMAIN D.f.mcp.f :
                    /\ D.f.mcp.f[name].t = "obj"
                    /\ Get(D.f.mcp.f[name], "type") \in {Str("local"), Str("remote")}

C13_OneErrorPerNonObjectProvider ==
    (Validated /\ "provider" \in DOMAIN tool.config.f /\ tool.config.f.provider.t = "obj") =>
        \A id \in DOMAIN tool.config.f.provider.f :
            LET v == tool.config.f.provider.f[id]
                errs == {e \in ErrorsOfRules({"provider must be an object"}) : e.key = id}
            IN  /\ v.t \in {"str", "num", "bool", "null"} => Cardinality(errs) = 1
                /\ v.t = "obj" => errs = {}

\* C14: of the entries of an mcp section, each that is no object, or is null,
\* or has no type, or has a type other than local and remote yields exactly
\* one error, which names the entry and the rule; each that is an object with
\* the type local or remote yields none; what an entry yields depends on that
\* entry alone.
C14_OneErrorPerBadMcpEntry ==
    (Validated /\ "mcp" \in DOMAIN tool.config.f /\ tool.config.f.mcp.t = "obj") =>
        \A name \in DOMAIN tool.config.f.mcp.f :
            LET v == tool.config.f.mcp.f[name]
                type == Get(v, "type")
                errs == {e \in ErrorsOfRules(McpRules) : e.key = name}
            IN  IF v.t = "obj" /\ type \in {Str("local"), Str("remote")}
                THEN errs = {}
                ELSE /\ Cardinality(errs) = 1
                     /\ v.t \in {"str", "num", "bool", "null"} =>
                            errs = {Err("mcp must be an object", name)}
                     /\ (v.t = "obj" /\ type = Undefined) =>
                            errs = {Err("mcp type is required", name)}
                     /\ (v.t = "obj" /\ Truthy(type)) =>
                            errs = {Err("mcp type must be local or remote", name)}

\* Two entries of one section were refused by different rules.
C14_Witness ==
    /\ Validated
    /\ \E e1, e2 \in ErrorsOfRules(McpRules) : e1.key # e2.key /\ e1.rule # e2.rule
    /\ Cardinality(ErrorsOfRules(McpRules)) = 2

-----------------------------------------------------------------------------
(* Properties of the Config Locator and of the tools that use it.          *)

\* The candidate order as the specification gives it: within a scope the
\* .jsonc name before the .json name; for auto the project before the global.
JsoncThenJson(dir) == <<dir \o "opencode.jsonc", dir \o "opencode.json">>
OrderOf(scope) ==
    CASE scope = "project" -> JsoncThenJson("./")
      [] scope = "global" -> JsoncThenJson("~/.config/opencode/")
      [] OTHER -> JsoncThenJson("./") \o JsoncThenJson("~/.config/opencode/")
Present(fs, scope) == {i \in 1..Len(OrderOf(scope)) : fs[OrderOf(scope)[i]] # Absent}
FirstPresent(fs, scope) ==
    OrderOf(scope)[CHOOSE i \in Present(fs, scope) : \A j \in Present(fs, scope) : i <= j]

\* read-config, or validate-config without config_data, has looked for a file.
Located ==
    \/ tool.op = "read-config"
    \/ tool.op = "validate-config" /\ tool.scope # "none"

\* C15: the file a tool works on is the first existing candidate of its
\* scope, in the order .jsonc before .json and project before global; the
\* tool reports not-found exactly when no candidate of the scope exists.
C15_FirstExistingCandidate ==
    Located =>
        IF Present(tool.files, tool.scope) = {}
        THEN tool.configPath = NoPath /\ tool.outcome = "notFound"
        ELSE tool.configPath = FirstPresent(tool.files, tool.scope) /\ tool.outcome # "notFound"

\* With scope auto, the project's opencode.json was taken though the global
\* opencode.jsonc exists.
C15_Witness ==
    /\ Located /\ tool.scope = "auto"
    /\ tool.configPath = "./opencode.json"
    /\ tool.files["~/.config/opencode/opencode.jsonc"] # Absent

\* C16: read-config and validate-config without config_data, finding no
\* candidate of the scope, return a not-found result, which carries the
\* candidates of the scope in the order they were checked.
C16_NotFoundCarriesSearchedPaths ==
    (Located /\ Present(tool.files, tool.scope) = {}) =>
        /\ tool.outcome = "notFound"
        /\ tool.searched = OrderOf(tool.scope)

-----------------------------------------------------------------------------
(* Properties of the schema cache.                                         *)

FetchErrors == {"DataFetchError", "TypeError: fetch failed"}
LoadErrors == FetchErrors \cup {"IOError"}
\* The latest tool invocation called loadConfigSchema, and the call returned.
Loaded == tool.loaded
Returned == tool.loaded /\ tool.outcome \notin LoadErrors

C20_FetchFailureFailsEveryTool ==
    /\ (Loaded /\ tool.fetched /\ tool.remote \in {NoNode, FetchRejected}) =>
            /\ tool.outcome \in FetchErrors
            /\ tool.remote = NoNode => tool.outcome = "DataFetchError"
            /\ configSchemaCache = tool.cacheBefore
            /\ schemaFile = tool.fileBefore
    /\ configSchemaCache = NoSchema =>
            /\ Loaded => tool.outcome \in LoadErrors
            /\ snip.pc # "idle" => (snip.pc = "done" /\ snip.outcome \in LoadErrors)
            /\ \A p \in Procs :
                    \/ calls[p].pc \in {"idle", "locate", "merge", "validate"}
                    \/ Finished(calls[p]) /\ calls[p].outcome \in LoadErrors \cup {"TypeError"}
    /\ \A p \in Procs :
            (Finished(calls[p]) /\ calls[p].outcome \in FetchErrors) =>
                /\ files = calls[p].pre.files
                /\ backups = calls[p].pre.backups
                /\ configSchemaCache = NoSchema
                /\ schemaFile \in {NoSchema, CorruptFile}

\* With no schema on disk and a response that was not ok, a write over an
\* existing file with a backup asked for ended on the fetch error.
C20_Witness ==
    \E p \in Procs :
        LET c == calls[p] IN
        /\ Finished(c) /\ c.outcome = "DataFetchError"
        /\ ~c.isNewFile /\ c.createBackup
        /\ schemaFile = NoSchema /\ configSchemaCache = NoSchema
        /\ backups = c.pre.backups /\ files = c.pre.files

-----------------------------------------------------------------------------
(* Properties of the two schema path resolvers.                            *)

\* Both resolvers were given the same path over the same schema.
BothResolved ==
    /\ snip.pc = "done" /\ snip.outcome \in {"ok", "SchemaPathError"}
    /\ tool.op = "get-schema" /\ tool.outcome \in {"ok", "SchemaPathError"}
    /\ tool.parts = snip.parts /\ tool.schema = snip.schema

\* C30: for every schema and every dotted path, get-schema and
\* generate-config-snippet both fail with a schema-path error or both
\* resolve to the same schema fragment.
C30_ResolversAgree ==
    BothResolved =>
        \/ snip.outcome = "SchemaPathError" /\ tool.outcome = "SchemaPathError"
        \/ snip.outcome = "ok" /\ tool.outcome = "ok" /\ tool.node = snip.current

-----------------------------------------------------------------------------
(* Properties of the catalog cache and of the models.dev tools.            *)

CatalogLoadErrors == {"DataFetchError", "TypeError: fetch failed", "IOError"}
\* The latest models.dev invocation was ended by its load of the catalog.
CatalogLoadFailed(q) == q.op # "none" /\ q.outcome \in CatalogLoadErrors
\* The latest models.dev invocation got a catalog from loadModelsDevData.
CatalogReturned(q) == q.op # "none" /\ q.outcome \notin CatalogLoadErrors
Expired(q) == q.cacheBefore # NoCatalog /\ q.now - q.timeBefore >= CACHE_MAX_AGE

\* C21: a refresh of the catalog or of the schema that fails, forced or
\* triggered by staleness, throws to its caller, returns nothing and leaves
\* the cached value and its time as they were; a non-forced get that follows a
\* failed refresh and finds the entry fresh returns the value cached before
\* the failed attempt.
C21_FailedRefreshKeepsCache ==
    /\ CatalogLoadFailed(query) =>
            /\ query.data = NoCatalog
            /\ modelsDevCache = query.cacheBefore
            /\ modelsDevCacheTime = query.timeBefore
    /\ (tool.loaded /\ tool.outcome \in LoadErrors) =>
            /\ tool.schema = NoSchema
            /\ configSchemaCache = tool.cacheBefore
    /\ (query.served = "memory" /\ query.prev.op # "none"
            /\ query.prev.outcome \in CatalogLoadErrors) =>
            /\ query.data = query.prev.cacheBefore
            /\ modelsDevCache = query.prev.cacheBefore

\* A forced refresh of a catalog held in memory failed at the fetch, and the
\* next non-forced get was served that catalog from memory.
C21_Witness ==
    /\ query.served = "memory" /\ ~query.force
    /\ query.prev.op = "update-models-dev-data" /\ query.prev.force
    /\ query.prev.outcome = "DataFetchError"
    /\ query.prev.cacheBefore # NoCatalog
    /\ query.data = query.prev.cacheBefore

\* C22: every catalog loadModelsDevData(false) returns was fetched from the
\* remote source less than the maximum cache age before the call.
C22_ReturnedCatalogIsFresh ==
    (CatalogReturned(query) /\ ~query.force) =>
        query.now - query.data.fetchedAt < CACHE_MAX_AGE

C25_SearchNeverExceedsLimit ==
    (query.op = "search-models" /\ query.outcome = "ok") =>
        Len(query.results) <= LimitOf(query.args.limit)

-----------------------------------------------------------------------------
(* Properties of the order of the steps of writeConfig.                    *)

\* The backups of the scope of c that carry the name c gave its backup.
OwnBackups(c) == {f \in BackupFiles(backups[c.scope]) : BackupName(f) = c.backupName}

\* C27: the backup is copied after validation has passed and while the target
\* still holds what it held when the call began, so the backup of a
\* successful overwriting write with create_backup true holds the content the
\* target had before the write; a call that fails at the backup directory or
\* at the copy ends with the target as it was.
C27_BackupBeforeOverwrite ==
    \A p \in Procs :
        LET c == calls[p] IN
        /\ c.backupWritten =>
                /\ validateConfigData(c.finalConfig, configSchemaCache) = {}
                /\ \E f \in c.rotated :
                        /\ BackupName(f) = c.backupName
                        /\ f.content = c.pre.files[c.configPath]
                /\ \A f \in OwnBackups(c) : f.content = c.pre.files[c.configPath]
        /\ c.pc \in {"backup", "cleanup", "write"} => files = c.pre.files
        /\ (Succeeded(c) /\ c.createBackup /\ ~c.isNewFile) => c.backupWritten
        /\ (Finished(c) /\ c.outcome = "IOError") => files = c.pre.files

\* A write replaced the document of an existing file, and the backup it took
\* is in the backup directory with the document the file held before.
C27_Witness ==
    \E p \in Procs :
        LET c == calls[p] IN
        /\ Succeeded(c) /\ c.createBackup /\ ~c.isNewFile
        /\ files[c.configPath] # c.pre.files[c.configPath]
        /\ \E f \in OwnBackups(c) : f.content = c.pre.files[c.configPath]
                                     /\ f.content = Text(TRUE, BaseDoc)

-----------------------------------------------------------------------------
(* Properties of the request layer.                                        *)

\* The exceptions the handlers of the model throw.
Failures ==
    {"ToolNotFoundError", "DataFetchError", "TypeError: fetch failed", "TypeError", "IOError",
     "ConfigValidationError", "SchemaPathError", "ProviderNotFoundError", "ModelNotFoundError"}

\* The latest request has been answered.
Answered == service.pending = "none" /\ service.served > 0

\* What the handler of the answered request returned or threw.
Ended ==
    CASE service.name \in ConfigTools -> tool.outcome
      [] service.name \in CatalogTools -> query.outcome
      [] service.name = "write-config" -> calls[1].outcome
      [] service.name = "generate-config-snippet" -> snip.outcome
      [] OTHER -> "none"

\* C24: a request to a name that has no handler is answered with an
\* unknown-tool error; a request whose handler throws is answered with a
\* response marked isError carrying that failure, and one whose handler
\* returns with a response that is not; the process keeps running and is
\* ready for the next request, and a cache that held a value when the failing
\* request arrived holds the same value afterwards.
C24_FailuresBecomeErrorResponses ==
    /\ service.running
    /\ Answered =>
        LET r == service.response IN
        /\ service.name \notin Registered => r.isError /\ r.text = "ToolNotFoundError"
        /\ service.name \in Registered => r.text = Ended
        /\ r.isError <=> r.text \in Failures
        /\ ~r.isError => r.text \in ResultTexts
        /\ r.isError =>
            /\ service.before.configSchemaCache # NoSchema =>
                    configSchemaCache = service.before.configSchemaCache
            /\ service.before.modelsDevCache # NoCatalog =>
                    /\ modelsDevCache = service.before.modelsDevCache
                    /\ modelsDevCacheTime = service.before.modelsDevCacheTime

\* Two requests failed one after the other, the second to a name that has no
\* handler, and both caches still hold what earlier requests loaded.
C24_Witness ==
    /\ Answered /\ service.running
    /\ service.served = 2 /\ service.failed = 2
    /\ service.name = "no-such-tool"
    /\ service.response = [isError |-> TRUE, text |-> "ToolNotFoundError"]
    /\ (configSchemaCache # NoSchema \/ modelsDevCache # NoCatalog)

\* C28: a config file differs from what the latest request found only when
\* that request is a write-config that succeeded and the file is its target,
\* one of the candidates of its scope; and no config file that existed is gone.
C28_OnlySuccessfulWritesChangeFiles ==
    service.name # "none" =>
        \A path \in ConfigPaths :
            /\ files[path] # service.before.files[path] =>
                    /\ service.name = "write-config"
                    /\ Succeeded(calls[1])
                    /\ path = calls[1].configPath
                    /\ \E k \in 1..2 : path = CandidatePaths(calls[1].scope)[k]
            /\ Exists(service.before.files, path) => Exists(files, path)

-----------------------------------------------------------------------------
(* Properties of two writes in one process.                                *)

\* doc holds every member of frag, at every depth, with frag's value.
RECURSIVE Contains(_, _)
Contains(doc, frag) ==
    IF frag.t = "obj"
    THEN /\ doc.t = "obj"
         /\ \A k \in DOMAIN frag.f : k \in DOMAIN doc.f /\ Contains(doc.f[k], frag.f[k])
    ELSE doc = frag

\* Both calls wrote the same file; Later is the one whose write completed last.
BothWrote ==
    /\ \A p \in Procs : Succeeded(calls[p])
    /\ calls[1].configPath = calls[2].configPath
Later == CHOOSE p \in Procs : calls[p].order = 2
Earlier == CHOOSE p \in Procs : calls[p].order = 1
Overlapped == \E p \in Procs : calls[p].overlapped
\* Both calls read the same existing document, which the earlier write changed:
\* the later call read it before the earlier one wrote.
BothReadBase ==
    /\ BothWrote
    /\ calls[Later].existing # Undefined
    /\ calls[Later].existing = calls[Earlier].existing
    /\ calls[Earlier].finalConfig # calls[Earlier].existing
    /\ calls[Earlier].config # calls[Later].config

\* C26, (a): once both writes are done the file holds the document of the one
\* whose write completed last.
LastWriteWins ==
    BothWrote =>
        files[calls[Later].configPath] =
            Serialize(calls[Later].configPath, calls[Later].finalConfig)
\* C26, (b): when both read the base before either wrote, the file holds the
\* base merged with the later fragment alone, the earlier fragment is not in
\* it, and no backup holds the document with both.
InterleavedLosesUpdate ==
    BothReadBase =>
        LET e == calls[Earlier]
            l == calls[Later]
            doc == parseJSONC(files[l.configPath])
        IN  /\ doc = deepMerge(l.existing, l.config)
            /\ ~Contains(doc, e.config)
            /\ \A b \in BackupFiles(backups[l.scope]) :
                    ~(Contains(parseJSONC(b.content), e.config)
                        /\ Contains(parseJSONC(b.content), l.config))
\* C26, (c): when neither call began while the other was in progress, the
\* file holds a document containing both fragments.
SequentialKeepsBoth ==
    (BothWrote /\ ~Overlapped) =>
        \A p \in Procs : Contains(parseJSONC(files[calls[p].configPath]), calls[p].config)

\* C26: two merge writes to one scope in one process: the last write to
\* complete decides the file; writes that both read the base lose the earlier
\* fragment, in the file and in every backup; writes that do not overlap leave
\* a document containing both fragments.
C26_RacingWrites ==
    /\ LastWriteWins
    /\ InterleavedLosesUpdate
    /\ SequentialKeepsBoth

-----------------------------------------------------------------------------
(* The round trip of a write and a read.                                   *)

\* read-config ran right after the first write succeeded.
ReadAfterWrite == nCalls = 1 /\ Succeeded(calls[1]) /\ tool.op = "read-config"
\* The merge write that followed the read has read its base.
MergedAfterRead ==
    /\ nCalls = 2 /\ tool.op = "read-config"
    /\ calls[1].pc \in {"validate", "backup", "cleanup", "write", "done"}
    /\ calls[1].outcome # "TypeError"

====
